---- MODULE Spec2Model ----
(***************************************************************************)
(* A model of the multichase memory benchmark suite: the permutation and   *)
(* chase-graph builders (permutation.c), the chase runner with its start   *)
(* barrier, kernels and sampler (multichase.c, multiload.c), the bandwidth *)
(* sampling protocol (multiload.c) and the branch-chase rewriter (asm.c,   *)
(* br_asm.c).                                                              *)
(*                                                                         *)
(* The module holds several state machines over one set of variables; each *)
(* specification drives one group of variables and leaves the others at    *)
(* their idle values.                                                      *)
(***************************************************************************)
EXTENDS Integers, Naturals, Sequences, FiniteSets, TLC

(***************************************************************************)
(* State.  Each group of variables belongs to one of the state machines.   *)
(***************************************************************************)
VARIABLES
    perm_nr,    \* nr
    perm_base,  \* base
    perm_out,   \* the array perm[0 .. nr)
    perm_ret    \* what is_a_permutation(perm, nr) returned, NotCalled before

permVars == <<perm_nr, perm_base, perm_out, perm_ret>>

VARIABLES
    args,       \* struct generate_chase_common_args, plus the options of main
    mem,        \* the written bytes of the region alloc_arena returned
    cycle,      \* cycle[mixer_idx]: the head generate_chase returned, 0 = not built
    owner,      \* history: owner[b] = the mixer_idx whose builder wrote byte b,
                \* Clash once two builders wrote it
    last_perm   \* history: last_perm[mixer_idx] = the perm its builder drew

chaseVars == <<args, mem, cycle, owner, last_perm>>

VARIABLES
    nr_threads,     \* the -t option
    nr_to_startup,  \* static size_t nr_to_startup
    wait_mutex,     \* the thread holding wait_mutex, or Free
    created,        \* how many pthread_create calls main has made
    pc,             \* pc[t]: where worker t is in thread_start
    main_pc         \* where main is

barrierVars == <<nr_threads, nr_to_startup, wait_mutex, created, pc, main_pc>>

VARIABLES
    unroll,      \* the constant the running kernel adds to count per iteration
    count,       \* t->x.count
    prev_count,  \* history: count before the kernel's last add since the swap
    cur_samples,  \* cur_samples[i], what main's last swap obtained
    kernel_pc    \* "loop" inside the do-while, "returned" after it

countVars == <<unroll, count, prev_count, cur_samples, kernel_pc>>

VARIABLES
    program,            \* "multichase" or "multiload"
    nr_samples_arg,     \* history: nr_samples as the -n option set it
    nr_samples,         \* size_t nr_samples
    sample_no,          \* the loop variable of the sampling loop
    nr_chase_threads,   \* workers running a chase kernel
    nr_load_threads,    \* workers running a load kernel (multiload only)
    running_sum,        \* running_sum / chase_running_sum
    best,               \* best / chase_min
    load_running_sum,   \* load_running_sum
    contributors,       \* history: the sample_no of every round added to the
                        \* chase aggregates
    load_contributors,  \* history: the same for the load aggregates
    divisor,            \* nr_samples - 1 as the report computes it
    rounds,             \* history: trips of the sampling loop made
    sampler_pc          \* where main is

samplerVars ==
    <<program, nr_samples_arg, nr_samples, sample_no, nr_chase_threads,
      nr_load_threads, running_sum, best, load_running_sum, contributors,
      load_contributors, divisor, rounds, sampler_pc>>

VARIABLES
    bw_threads,     \* number of bandwidth workers
    bw_nr_samples,  \* main's nr_samples in the run with bandwidth workers
    bw_sample_no,   \* main's loop variable sample_no in that run
    bw_i,           \* main's index i into thread_data
    bw_pc,          \* where main is: "store", "poll" or "done"
    x_sample_no,    \* x_sample_no[t]: thread_data[t].x.sample_no
    x_count,        \* x_count[t]: thread_data[t].x.count
    cur_sample,     \* cur_sample[t]: the worker's local cur_sample
    nxt_sample,     \* nxt_sample[t]: the worker's local nxt_sample
    load_pc,        \* load_pc[t]: where worker t is in LOAD_MEMORY_SAMPLE_MIBPS
    stores,         \* history: stores[t] = main's stores to x_sample_no[t]
    in_count,       \* history: in_count[t] = the publications added to
                    \* x_count[t] since it was last zero
    published,      \* history: published[t] = the requests t has answered
    collected       \* history: collected[t] = main's last value taken from t

bwVars ==
    <<bw_threads, bw_nr_samples, bw_sample_no, bw_i, bw_pc, x_sample_no, x_count,
      cur_sample, nxt_sample, load_pc, stores, in_count, published, collected>>

VARIABLES
    br_variant,    \* <<source file, architecture>> of the build
    br_size,       \* bytes mapped for the arena
    br_mem,        \* the written bytes of the arena
    br_head,       \* head
    br_chunk_size, \* the chunk_size argument
    br_order,      \* history: the cells of the pointer cycle, from head
    br_pc,         \* "built", then how convert_pointers_to_branches ended
    br_ret,        \* what convert_pointers_to_branches returned
    exec_p,        \* the function pointer the next call goes to
    exec_pc,       \* "ready", or how the last call ended
    calls,         \* calls made
    visited        \* history: the cells whose code was executed

branchVars ==
    <<br_variant, br_size, br_mem, br_head, br_chunk_size, br_order, br_pc, br_ret,
      exec_p, exec_pc, calls, visited>>

VARIABLES
    tool,             \* "multichase" or "multiload"
    cmdline,          \* history: the -c and -l options of the command line
    argv,             \* the options getopt has not returned yet
    requested,        \* history: stride, tlb_locality, total_memory after getopt
    genchase_args,    \* stride, tlb_locality, total_memory, nr_mixer_indices
    setup_nr_threads, \* nr_threads
    run_test_type,    \* RUN_CHASE, RUN_BANDWIDTH or RUN_CHASE_LOADED
    chase,            \* the name of the selected entry of chases[]
    setup_pc,         \* main's position, "usage" and "exit1" for exit(1)
    mixer_built,      \* history: generate_chase_mixer was called
    arena_allocated,  \* history: the arena was allocated
    thread_type,      \* x.run_test_type of the threads created so far
    passed            \* history: <<thread_num, mixer_idx>> given to generate_chase

setupVars ==
    <<tool, cmdline, argv, requested, genchase_args, setup_nr_threads,
      run_test_type, chase, setup_pc, mixer_built, arena_allocated, thread_type,
      passed>>

VARIABLES
    mx_variant,   \* the source of generate_chase_mixer: with or without a floor
    mx_requested, \* the nr_mixers argument, nr_threads * parallelism
    mx_args,      \* args: nr_mixers, nr_mixer_indices, ordered, mixer
    mx_pc         \* "call", then "returned"

mixersVars == <<mx_variant, mx_requested, mx_args, mx_pc>>

VARIABLES
    rng_variant,  \* the header rng_int comes from: "modulo" or "scaled"
    rng_limit,    \* the argument
    rng_raw,      \* the values random_r produced for the call
    rng_ret       \* what the call returned

rngVars == <<rng_variant, rng_limit, rng_raw, rng_ret>>

VARIABLES
    isp_nr,   \* nr_elts of one call of is_a_permutation
    isp_p,    \* the array it is given
    isp_ret,  \* what it returned
    isp_oob   \* history: it read or wrote vec outside its (nr_elts + 7) / 8 bytes

ispVars == <<isp_nr, isp_p, isp_ret, isp_oob>>

VARIABLES
    lg_variant,   \* the source of generate_chase_long: "forward" or "inverse"
    lg_args,      \* args, after generate_chase_mixer
    lg_total_par, \* total_par
    lg_mixer_idx, \* mixer_idx
    lg_mem,       \* bytes of the arena that were written
    lg_head,      \* the returned pointer, 0 before the call returns
    lg_perm,      \* history: perm as the call drew it
    lg_stores,    \* history: the addresses the call stored to, in order
    lg_assert     \* history: assert(cell == NULL) failed

longVars ==
    <<lg_variant, lg_args, lg_total_par, lg_mixer_idx, lg_mem, lg_head, lg_perm,
      lg_stores, lg_assert>>

VARIABLES
    cw_args,    \* genchase_args, after generate_chase_mixer
    cw_offset,  \* N of -c critword:N
    cw_mem,     \* bytes of the arena that were written
    cw_cycle,   \* cycle[0] of every thread, 0 before generate_chase
    cw_order,   \* history: the cells of every thread's chase in cycle order
    cw_pc       \* every thread's position: "start", "built", then how the
                \* rewrite ended

critwordVars == <<cw_args, cw_offset, cw_mem, cw_cycle, cw_order, cw_pc>>

VARIABLES
    copt_tool,      \* "multichase" or "multiload"
    copt_arch,      \* the architecture the registry was compiled for
    copt_optarg,    \* the argument of -c, a sequence of characters
    copt_run_test_type, \* multiload: RUN_BANDWIDTH after -l
    copt_chase,     \* index of the selected entry of chases[], from 1
    copt_extra_args,\* the text after the colon
    copt_pc         \* "getopt", then "selected", "usage" or "exit"

coptVars == <<copt_tool, copt_arch, copt_optarg, copt_run_test_type, copt_chase,
              copt_extra_args, copt_pc>>

VARIABLES
    ld_run_test_type,   \* main's run_test_type
    ld_type,            \* thread_data[t].x.run_test_type
    ld_arena,           \* load arena of t: "NULL", "mapped" or "touched"
    ld_pc,              \* where worker t is in thread_start
    ld_nr_to_startup,   \* nr_to_startup
    ld_mutex,           \* the worker holding wait_mutex, or Free
    ld_released,        \* history: t has returned from the wait or broadcast
    ld_loops            \* trips worker t has made through its kernel's loop

loadVars == <<ld_run_test_type, ld_type, ld_arena, ld_pc, ld_nr_to_startup,
              ld_mutex, ld_released, ld_loops>>

VARIABLES
    tl_unroll,  \* the constant U the worker's kernel adds per trip
    tl_count,   \* t->x.count
    tl_trips,   \* history: trips of the kernel's loop completed
    tl_swapped, \* history: sum of the values main's swaps returned
    tl_wrapped, \* history: an addition has wrapped count
    tl_pc       \* "loop" inside the kernel's do-while, "returned" after it

tallyVars == <<tl_unroll, tl_count, tl_trips, tl_swapped, tl_wrapped, tl_pc>>

VARIABLES
    sd_tool,        \* "multichase" or "multiload"
    sd_ordered,     \* -o: gen_permutation is gen_ordered_permutation
    sd_bandwidth,   \* multiload: run_test_type == RUN_BANDWIDTH
    sd_nr,          \* elements of every permutation generated
    sd_rand_state,  \* the thread-local rand_state of main and of every worker
    sd_pc,          \* where main and every worker are
    sd_calls,       \* history: calls of rng_int made by each thread
    sd_unseeded     \* history: threads that called rng_int with rand_state NULL

seedVars == <<sd_tool, sd_ordered, sd_bandwidth, sd_nr, sd_rand_state, sd_pc,
              sd_calls, sd_unseeded>>

VARIABLES
    pp_loop,            \* thread_fn: "locked_loop" or "unlocked_loop"
    pp_pingpong_mutex,  \* the pointer pingpong_mutex: "NULL" or "mapped"
    pp_word,            \* *pingpong_mutex once it is mapped
    pp_cache,           \* cache_pingpong_mutex of each thread
    pp_wait_for_buddy,  \* static int wait_for_buddy
    pp_wait_mutex,      \* the thread holding common_setup's wait_mutex, or Free
    pp_stop_loops,      \* stop_loops
    pp_pc,              \* where each thread is
    pp_log              \* history: the threads of the successful exchanges

pingpongVars == <<pp_loop, pp_pingpong_mutex, pp_word, pp_cache, pp_wait_for_buddy,
                  pp_wait_mutex, pp_stop_loops, pp_pc, pp_log>>

vars ==
    <<permVars, chaseVars, barrierVars, countVars, samplerVars, bwVars,
      branchVars, setupVars, mixersVars, rngVars, ispVars, longVars,
      critwordVars, coptVars, loadVars, tallyVars, seedVars, pingpongVars>>

\* what the actions of one state machine leave alone
besidesPerm ==
    <<chaseVars, barrierVars, countVars, samplerVars, bwVars, branchVars,
      setupVars, mixersVars, rngVars, ispVars, longVars, critwordVars,
      coptVars, loadVars, tallyVars, seedVars, pingpongVars>>
besidesChase ==
    <<permVars, barrierVars, countVars, samplerVars, bwVars, branchVars,
      setupVars, mixersVars, rngVars, ispVars, longVars, critwordVars,
      coptVars, loadVars, tallyVars, seedVars, pingpongVars>>
besidesBarrier ==
    <<permVars, chaseVars, countVars, samplerVars, bwVars, branchVars,
      setupVars, mixersVars, rngVars, ispVars, longVars, critwordVars,
      coptVars, loadVars, tallyVars, seedVars, pingpongVars>>
besidesCount ==
    <<permVars, chaseVars, barrierVars, samplerVars, bwVars, branchVars,
      setupVars, mixersVars, rngVars, ispVars, longVars, critwordVars,
      coptVars, loadVars, tallyVars, seedVars, pingpongVars>>
besidesSampler ==
    <<permVars, chaseVars, barrierVars, countVars, bwVars, branchVars,
      setupVars, mixersVars, rngVars, ispVars, longVars, critwordVars,
      coptVars, loadVars, tallyVars, seedVars, pingpongVars>>
besidesBw ==
    <<permVars, chaseVars, barrierVars, countVars, samplerVars, branchVars,
      setupVars, mixersVars, rngVars, ispVars, longVars, critwordVars,
      coptVars, loadVars, tallyVars, seedVars, pingpongVars>>
besidesBranch ==
    <<permVars, chaseVars, barrierVars, countVars, samplerVars, bwVars,
      setupVars, mixersVars, rngVars, ispVars, longVars, critwordVars,
      coptVars, loadVars, tallyVars, seedVars, pingpongVars>>
besidesSetup ==
    <<permVars, chaseVars, barrierVars, countVars, samplerVars, bwVars,
      branchVars, mixersVars, rngVars, ispVars, longVars, critwordVars,
      coptVars, loadVars, tallyVars, seedVars, pingpongVars>>
besidesMixers ==
    <<permVars, chaseVars, barrierVars, countVars, samplerVars, bwVars,
      branchVars, setupVars, rngVars, ispVars, longVars, critwordVars,
      coptVars, loadVars, tallyVars, seedVars, pingpongVars>>
besidesRng ==
    <<permVars, chaseVars, barrierVars, countVars, samplerVars, bwVars,
      branchVars, setupVars, mixersVars, ispVars, longVars, critwordVars,
      coptVars, loadVars, tallyVars, seedVars, pingpongVars>>
besidesIsPerm ==
    <<permVars, chaseVars, barrierVars, countVars, samplerVars, bwVars,
      branchVars, setupVars, mixersVars, rngVars, longVars, critwordVars,
      coptVars, loadVars, tallyVars, seedVars, pingpongVars>>
besidesLong ==
    <<permVars, chaseVars, barrierVars, countVars, samplerVars, bwVars,
      branchVars, setupVars, mixersVars, rngVars, ispVars, critwordVars,
      coptVars, loadVars, tallyVars, seedVars, pingpongVars>>
besidesCritword ==
    <<permVars, chaseVars, barrierVars, countVars, samplerVars, bwVars,
      branchVars, setupVars, mixersVars, rngVars, ispVars, longVars,
      coptVars, loadVars, tallyVars, seedVars, pingpongVars>>
besidesCopt ==
    <<permVars, chaseVars, barrierVars, countVars, samplerVars, bwVars,
      branchVars, setupVars, mixersVars, rngVars, ispVars, longVars,
      critwordVars, loadVars, tallyVars, seedVars, pingpongVars>>
besidesLoad ==
    <<permVars, chaseVars, barrierVars, countVars, samplerVars, bwVars,
      branchVars, setupVars, mixersVars, rngVars, ispVars, longVars,
      critwordVars, coptVars, tallyVars, seedVars, pingpongVars>>
besidesTally ==
    <<permVars, chaseVars, barrierVars, countVars, samplerVars, bwVars,
      branchVars, setupVars, mixersVars, rngVars, ispVars, longVars,
      critwordVars, coptVars, loadVars, seedVars, pingpongVars>>
besidesSeed ==
    <<permVars, chaseVars, barrierVars, countVars, samplerVars, bwVars,
      branchVars, setupVars, mixersVars, rngVars, ispVars, longVars,
      critwordVars, coptVars, loadVars, tallyVars, pingpongVars>>
besidesPingpong ==
    <<permVars, chaseVars, barrierVars, countVars, samplerVars, bwVars,
      branchVars, setupVars, mixersVars, rngVars, ispVars, longVars,
      critwordVars, coptVars, loadVars, tallyVars, seedVars>>

(***************************************************************************)
(* Bounds of the model.                                                    *)
(***************************************************************************)
\* largest number of elements (total_memory / stride) of a modelled arena
MaxElts == 4
\* largest number of elements of an arena that several chases share
MaxEltsShared == 3
\* largest number of chases (nr_threads * parallelism) built in one arena
MaxChases == 2
\* largest number of worker threads
MaxThreads == 3
\* modelled width in bits of t->x.count (unsigned: 32 in multichase.c,
\* uint64_t: 64 in multiload.c)
CountBits == 8
\* modelled width in bits of the size_t variables nr_samples and sample_no
SampleBits == 3
\* largest per-round figure (time_delta / sum, or a thread sum) modelled
MaxFigure == 2
\* largest number of bandwidth workers, and of sampling rounds after round 0
MaxLoadThreads == 2
MaxLoadRounds == 2
\* largest MiB/s figure a bandwidth worker publishes
MaxMibps == 1
\* largest cycle handed to the branch rewriter, and largest chunk_size
MaxBranchElts == 4
MaxChunk == 3
\* largest nr and base handed to the permutation generators on their own
\* the requested number of mixers, nr_threads * parallelism
MaxMixers == 5
\* the indeterminate nr_mixers field on entry
MaxIncoming == 66
\* nr_mixer_indices of the modelled mixer tables
MaxMixerIndices == 2

\* options on a modelled command line
MaxOptions == 2
\* -s, -T and -m in units of SizeUnit bytes
MaxStrideUnits == 4
MaxTlbUnits == 6
MaxMemUnits == 8
\* -t of the modelled command lines
MaxSetupThreads == 2

\* bits of a random_r result, bits rng_int keeps of each draw, largest small limit
RandBits == 2
PieceBits == 1
MaxLimit == 3

\* longest array given to is_a_permutation, largest value in it, and the
\* longest array of which every content is tried
MaxCheckNr == 9
MaxValue == 17
MaxFullNr == 2

\* largest nr_mixer_indices, and most cells (nr_iteration * nr_elts), of the
\* modelled calls of generate_chase_long
MaxLongIndices == 4
MaxLongCells == 6

\* most elements and most threads of the modelled critword chases
MaxCritElts == 3
MaxCritThreads == 2

\* most workers of multiload and most trips through a kernel modelled
MaxStartThreads == 3
MaxStartLoops == 2

\* most trips of the kernel whose count is tallied
MaxTallyTrips == 6

\* most workers and most elements of a permutation in the model of seeding
MaxSeedThreads == 2
MaxSeedElts == 3

\* most successful exchanges of the ping-pong threads
MaxExchanges == 4

MaxNr == 4
MaxBase == 2

(***************************************************************************)
(* Machine arithmetic.                                                     *)
(***************************************************************************)
\* sizeof(void *) on the 64-bit targets
PtrSize == 8
\* the granularity of the modelled sizes, half a pointer
SizeUnit == PtrSize \div 2

RECURSIVE Pow2(_)
Pow2(k) == IF k <= 0 THEN 1 ELSE 2 * Pow2(k - 1)

\* x & y on non-negative integers
RECURSIVE BitAnd(_, _)
BitAnd(x, y) ==
    IF x = 0 \/ y = 0 THEN 0
    ELSE (x % 2) * (y % 2) + 2 * BitAnd(x \div 2, y \div 2)

\* number of significant bits of v: 64 - __builtin_clzl(v) for v > 0
RECURSIVE BitLen(_)
BitLen(v) == IF v = 0 THEN 0 ELSE 1 + BitLen(v \div 2)

Min(a, b) == IF a < b THEN a ELSE b

(***************************************************************************)
(* Byte-addressed memory.  A region of size bytes starts at address        *)
(* RegionBase; its content is a function from the byte indices that were   *)
(* written to their byte values, every other byte of the region holding    *)
(* the zero mmap left there.  Pointers are stored little-endian in PtrSize *)
(* bytes.  Addresses of the model stay below 2^24, so bytes 3..7 of every  *)
(* stored pointer are zero; a load that finds anything else there, or that *)
(* leaves the region, yields Wild.                                         *)
(***************************************************************************)
RegionBase == 17 * 4096
Wild == 0 - 1

ByteOf(val, i) ==
    IF i = 0 THEN val % 256
    ELSE IF i = 1 THEN (val \div 256) % 256
    ELSE IF i = 2 THEN (val \div 65536) % 256
    ELSE 0

\* the byte at index b
ByteAt(m, b) == IF b \in DOMAIN m THEN m[b] ELSE 0

\* *(void **)(addr) = val
StorePtr(m, addr, val) ==
    LET o == addr - RegionBase
    IN [b \in o .. o + PtrSize - 1 |-> ByteOf(val, b - o)] @@ m

\* *(void **)(addr) in a region of size bytes
LoadPtr(m, size, addr) ==
    LET o == addr - RegionBase IN
    IF o < 0 \/ o + PtrSize > size THEN Wild
    ELSE IF \E i \in 3 .. PtrSize - 1 : ByteAt(m, o + i) # 0 THEN Wild
    ELSE ByteAt(m, o) + 256 * ByteAt(m, o + 1) + 65536 * ByteAt(m, o + 2)

(***************************************************************************)
(* Permutation builder (permutation.c).                                    *)
(***************************************************************************)
\* content of a malloc'ed perm_t that was never written
Uninit == 0 - 7

\* the results rng_int(0), rng_int(1), ..., rng_int(nr-1) can take
Draws(nr) == {t \in [0 .. nr - 1 -> 0 .. nr - 1] : \A i \in 0 .. nr - 1 : t[i] <= i}

\* the ordered generator draws nothing
DrawsFor(ordered, nr) == IF ordered THEN {[i \in 0 .. nr - 1 |-> 0]} ELSE Draws(nr)

\* gen_random_permutation drawing t from [0, i / 2] instead of [0, i]
RECURSIVE random_loop_halved(_, _, _, _, _, _)
random_loop_halved(perm, at, nr, base, t, i) ==
    IF i >= nr THEN perm
    ELSE LET p1 == [perm EXCEPT ![at + i] = perm[at + (t[i] \div 2)]]
             p2 == [p1 EXCEPT ![at + (t[i] \div 2)] = base + i]
         IN random_loop_halved(p2, at, nr, base, t, i + 1)

RECURSIVE random_loop(_, _, _, _, _, _)
random_loop(perm, at, nr, base, t, i) ==
    IF i >= nr THEN perm
    ELSE LET p1 == [perm EXCEPT ![at + i] = perm[at + t[i]]]
             p2 == [p1 EXCEPT ![at + t[i]] = base + i]
         IN random_loop(p2, at, nr, base, t, i + 1)

\* gen_random_permutation with its two stores exchanged
RECURSIVE random_loop_exchanged(_, _, _, _, _, _)
random_loop_exchanged(perm, at, nr, base, t, i) ==
    IF i >= nr THEN perm
    ELSE LET p1 == [perm EXCEPT ![at + t[i]] = base + i]
             p2 == [p1 EXCEPT ![at + i] = p1[at + t[i]]]
         IN random_loop_exchanged(p2, at, nr, base, t, i + 1)

gen_random_permutation_exchanged(perm, at, nr, base, t) ==
    random_loop_exchanged(perm, at, nr, base, t, 0)

\* gen_random_permutation(&perm[at], nr, base) with the draws t
gen_random_permutation(perm, at, nr, base, t) ==
    random_loop(perm, at, nr, base, t, 0)

\* gen_ordered_permutation(&perm[at], nr, base)
gen_ordered_permutation(perm, at, nr, base) ==
    [k \in DOMAIN perm |-> IF at <= k /\ k < at + nr THEN base + (k - at) ELSE perm[k]]

\* the call through args->gen_permutation
gen_permutation(ordered, perm, at, nr, base, t) ==
    IF ordered THEN gen_ordered_permutation(perm, at, nr, base)
    ELSE gen_random_permutation(perm, at, nr, base, t)

\* the bitset walk of is_a_permutation, on a bitset of (nr_elts + 7) / 8 bytes:
\* vec maps a byte index to the set of bits set in it
RECURSIVE mark_loop(_, _, _, _)
mark_loop(perm, nr_elts, vec, i) ==
    IF i >= nr_elts THEN [ok |-> TRUE, vec |-> vec, oob |-> FALSE]
    ELSE LET vec_elt == perm[i] \div 8
             test_bit == perm[i] % 8
         IN IF vec_elt \notin DOMAIN vec THEN [ok |-> FALSE, vec |-> vec, oob |-> TRUE]
            ELSE IF test_bit \in vec[vec_elt] THEN [ok |-> FALSE, vec |-> vec, oob |-> FALSE]
            ELSE mark_loop(perm, nr_elts,
                           [vec EXCEPT ![vec_elt] = vec[vec_elt] \cup {test_bit}], i + 1)

\* whether is_a_permutation indexes its bitset out of bounds
is_a_permutation_oob(perm, nr_elts) ==
    mark_loop(perm, nr_elts, [b \in 0 .. ((nr_elts + 7) \div 8) - 1 |-> {}], 0).oob

is_a_permutation(perm, nr_elts) ==
    LET vec_len == (nr_elts + 7) \div 8
        m == mark_loop(perm, nr_elts, [b \in 0 .. vec_len - 1 |-> {}], 0)
    IN IF ~m.ok THEN 0
       ELSE IF \E i \in 0 .. (nr_elts \div 8) - 1 : m.vec[i] # 0 .. 7 THEN 0
       ELSE IF nr_elts % 8 # 0 /\ m.vec[vec_len - 1] # 0 .. (nr_elts % 8) - 1 THEN 0
       ELSE 1

(***************************************************************************)
(* The permutation generators on their own: one array, generated once and  *)
(* then checked.                                                           *)
(***************************************************************************)
NotCalled == 0 - 1

PermFresh == \A i \in DOMAIN perm_out : perm_out[i] = Uninit

PermInit ==
    /\ perm_nr \in 1 .. MaxNr
    /\ perm_base \in 0 .. MaxBase
    /\ perm_out = [i \in 0 .. perm_nr - 1 |-> Uninit]
    /\ perm_ret = NotCalled

PermIdle ==
    /\ perm_nr = 0
    /\ perm_base = 0
    /\ perm_out = <<>>
    /\ perm_ret = NotCalled

GenRandom ==
    /\ PermFresh
    /\ \E t \in Draws(perm_nr) :
        perm_out' = gen_random_permutation(perm_out, 0, perm_nr, perm_base, t)
    /\ UNCHANGED <<perm_nr, perm_base, perm_ret, besidesPerm>>

GenOrdered ==
    /\ PermFresh
    /\ perm_out' = gen_ordered_permutation(perm_out, 0, perm_nr, perm_base)
    /\ UNCHANGED <<perm_nr, perm_base, perm_ret, besidesPerm>>

\* ret = is_a_permutation(perm, nr); an out-of-bounds bitset access is
\* undefined behaviour and may yield either answer
CheckPermutation ==
    /\ ~PermFresh
    /\ perm_ret = NotCalled
    /\ perm_ret' \in (IF is_a_permutation_oob(perm_out, perm_nr) THEN {0, 1}
                      ELSE {is_a_permutation(perm_out, perm_nr)})
    /\ UNCHANGED <<perm_nr, perm_base, perm_out, besidesPerm>>

PermNext == GenRandom \/ GenOrdered \/ CheckPermutation

(***************************************************************************)
(* Chase graph builder (permutation.c, and its callers in multichase.c).   *)
(***************************************************************************)
Clash == 0 - 2

\* <<stride, base_object_size>> of the modelled runs: simple on the smallest
\* stride, simple with two mixer slots (a dividing and a non-dividing
\* stride), incr (pointer plus counter) with two mixer slots
ChaseShapes == {<<8, 8>>, <<16, 8>>, <<20, 8>>, <<32, 16>>}

\* the -O option: bytes of padding in front of the arena
Offsets == {0, 8}

\* <<nr_elts_per_tlb, nr_tlb_groups>>
Layouts == {l \in (1 .. MaxElts) \X (1 .. MaxElts) : l[1] * l[2] <= MaxElts}

\* __builtin_clzl(0) is undefined: lzcnt yields 64, bsr leaves a stale register
ClzlOfZero == {63, 64}

\* __builtin_clzl(v)
clzl(v, lz0) == IF v = 0 THEN lz0 ELSE 64 - BitLen(v)

nr_elts_of(a) == a.total_memory \div a.stride
nr_tlb_groups_of(a) == a.total_memory \div a.tlb_locality
nr_elts_per_tlb_of(a) == a.tlb_locality \div a.stride

\* mixer[(x) & (args->nr_mixers - 1)] * mixer_scale, with
\* mixer = args->mixer + mixer_idx * args->nr_mixers
MIXED(a, mixer_idx, x) ==
    x * a.stride
    + a.mixer[mixer_idx * a.nr_mixers + BitAnd(x, a.nr_mixers - 1)]
      * (a.stride \div a.nr_mixer_indices)

\* the mixer filled without the transposition, r[i * nr_mixer_indices + j] = t[j]
mixer_table_rowwise(ordered, nr_mixers, nr_mixer_indices, draws) ==
    LET t(i) == gen_permutation(ordered, [j \in 0 .. nr_mixer_indices - 1 |-> Uninit],
                                0, nr_mixer_indices, 0, draws[i])
    IN [k \in 0 .. nr_mixer_indices * nr_mixers - 1 |->
            t(k \div nr_mixer_indices)[k % nr_mixer_indices]]

\* the loop over i of generate_chase_mixer: slot i draws t and stores it
\* transposed, r[j * nr_mixers + i] = t[j]
mixer_table(ordered, nr_mixers, nr_mixer_indices, draws) ==
    LET t(i) == gen_permutation(ordered, [j \in 0 .. nr_mixer_indices - 1 |-> Uninit],
                                0, nr_mixer_indices, 0, draws[i])
    IN [k \in 0 .. nr_mixer_indices * nr_mixers - 1 |->
            t(k % nr_mixers)[k \div nr_mixers]]

\* generate_chase_mixer(args, nr_mixers)
generate_chase_mixer(a, nr_mixers, lz0, draws) ==
    LET rounded == Pow2(64 - clzl(nr_mixers - 1, lz0))
    IN [a EXCEPT !.nr_mixers = rounded,
                 !.mixer = mixer_table(a.ordered, rounded, a.nr_mixer_indices, draws)]

\* the loop that fills perm group by group (permutation.c:156-159)
RECURSIVE group_loop(_, _, _, _, _)
group_loop(a, tlb_perm, perm, d, i) ==
    IF i >= nr_tlb_groups_of(a) THEN perm
    ELSE group_loop(a, tlb_perm,
                    gen_permutation(a.ordered, perm, i * nr_elts_per_tlb_of(a),
                                    nr_elts_per_tlb_of(a),
                                    tlb_perm[i] * nr_elts_per_tlb_of(a), d.grp[i]),
                    d, i + 1)

\* perm with the members of a group nr_tlb_groups elements apart instead of
\* adjacent
chase_perm_interleaved(a, d) ==
    LET tlb_perm == gen_permutation(a.ordered,
                                    [g \in 0 .. nr_tlb_groups_of(a) - 1 |-> Uninit],
                                    0, nr_tlb_groups_of(a), 0, d.tlb)
        p == group_loop(a, tlb_perm, [k \in 0 .. nr_elts_of(a) - 1 |-> Uninit], d, 0)
    IN [k \in DOMAIN p |->
            (p[k] % nr_elts_per_tlb_of(a)) * nr_tlb_groups_of(a)
            + p[k] \div nr_elts_per_tlb_of(a)]

\* perm as generate_chase builds it from the draws d
chase_perm(a, d) ==
    LET tlb_perm == gen_permutation(a.ordered,
                                    [g \in 0 .. nr_tlb_groups_of(a) - 1 |-> Uninit],
                                    0, nr_tlb_groups_of(a), 0, d.tlb)
    IN group_loop(a, tlb_perm, [k \in 0 .. nr_elts_of(a) - 1 |-> Uninit], d, 0)

\* the threading loop without the wrap of next to 0: the last element
\* points at itself
RECURSIVE thread_loop_nowrap(_, _, _, _, _)
thread_loop_nowrap(a, mixer_idx, perm, m, i) ==
    IF i >= nr_elts_of(a) THEN m
    ELSE LET next == IF i + 1 = nr_elts_of(a) THEN i ELSE i + 1
         IN thread_loop_nowrap(a, mixer_idx, perm,
                               StorePtr(m, a.arena + MIXED(a, mixer_idx, perm[i]),
                                        a.arena + MIXED(a, mixer_idx, perm[next])),
                               i + 1)

\* the threading loop (permutation.c:168-171)
RECURSIVE thread_loop(_, _, _, _, _)
thread_loop(a, mixer_idx, perm, m, i) ==
    IF i >= nr_elts_of(a) THEN m
    ELSE LET next == IF i + 1 = nr_elts_of(a) THEN 0 ELSE i + 1
         IN thread_loop(a, mixer_idx, perm,
                        StorePtr(m, a.arena + MIXED(a, mixer_idx, perm[i]),
                                 a.arena + MIXED(a, mixer_idx, perm[next])),
                        i + 1)

\* generate_chase(args, mixer_idx) with the draws d
generate_chase(a, m, mixer_idx, d) ==
    [mem |-> thread_loop(a, mixer_idx, chase_perm(a, d), m, 0),
     head |-> a.arena + MIXED(a, mixer_idx, 0)]

\* perm_inverse left as the identity instead of being computed from perm
RECURSIVE inverse_loop_identity(_, _, _, _)
inverse_loop_identity(perm, nr_elts, perm_inverse, i) ==
    IF i >= nr_elts THEN perm_inverse
    ELSE inverse_loop_identity(perm, nr_elts, [perm_inverse EXCEPT ![i] = i], i + 1)

\* the loop perm_inverse[perm[i]] = i of the builder that threads by element
RECURSIVE inverse_loop(_, _, _, _)
inverse_loop(perm, nr_elts, perm_inverse, i) ==
    IF i >= nr_elts THEN perm_inverse
    ELSE inverse_loop(perm, nr_elts, [perm_inverse EXCEPT ![perm[i]] = i], i + 1)

\* its threading loop: cell i receives the address of the element that
\* follows i in perm
RECURSIVE thread_loop_inverse(_, _, _, _, _, _)
thread_loop_inverse(a, mixer_idx, perm, perm_inverse, m, i) ==
    IF i >= nr_elts_of(a) THEN m
    ELSE LET next1 == perm_inverse[i] + 1
             next == IF next1 = nr_elts_of(a) THEN 0 ELSE next1
         IN thread_loop_inverse(a, mixer_idx, perm, perm_inverse,
                                StorePtr(m, a.arena + MIXED(a, mixer_idx, i),
                                         a.arena + MIXED(a, mixer_idx, perm[next])),
                                i + 1)

\* generate_chase(args, mixer_idx) of the builder with the inverse
\* permutation, from the point where perm is complete
generate_chase_inverse(a, m, mixer_idx, perm) ==
    LET perm_inverse == inverse_loop(perm, nr_elts_of(a),
                                     [k \in 0 .. nr_elts_of(a) - 1 |-> Uninit], 0)
    IN [mem |-> thread_loop_inverse(a, mixer_idx, perm, perm_inverse, m, 0),
        head |-> a.arena + MIXED(a, mixer_idx, 0)]

\* the draws one call of generate_chase makes
ChaseDraws(a) ==
    [tlb : DrawsFor(a.ordered, nr_tlb_groups_of(a)),
     grp : [0 .. nr_tlb_groups_of(a) - 1 -> DrawsFor(a.ordered, nr_elts_per_tlb_of(a))]]

\* bytes the pointer stores of generate_chase(args, mixer_idx) touch
StoredBytes(a, mixer_idx) ==
    {a.arena - RegionBase + MIXED(a, mixer_idx, x) + k :
        x \in 0 .. nr_elts_of(a) - 1, k \in 0 .. PtrSize - 1}

ChaseIdle ==
    /\ args = <<>>
    /\ mem = <<>>
    /\ cycle = <<>>
    /\ owner = <<>>
    /\ last_perm = <<>>

\* main after option parsing and normalisation: the arguments are consistent,
\* the region is allocated and zeroed, no mixer and no chase exists yet
ChaseInit ==
    \E shape \in ChaseShapes, lay \in Layouts, offset \in Offsets,
       ordered \in BOOLEAN, nr_chases \in 1 .. MaxChases :
        /\ nr_chases <= shape[1] \div shape[2]
        /\ nr_chases > 1 => lay[1] * lay[2] <= MaxEltsShared
        /\ args = [arena |-> RegionBase + offset,
                   total_memory |-> shape[1] * lay[1] * lay[2],
                   stride |-> shape[1],
                   tlb_locality |-> shape[1] * lay[1],
                   nr_mixers |-> 0,
                   ordered |-> ordered,
                   nr_mixer_indices |-> shape[1] \div shape[2],
                   mixer |-> <<>>,
                   base_object_size |-> shape[2],
                   offset |-> offset,
                   nr_chases |-> nr_chases]
        /\ mem = <<>>
        /\ cycle = [c \in 0 .. nr_chases - 1 |-> 0]
        /\ owner = <<>>
        /\ last_perm = [c \in 0 .. nr_chases - 1 |-> <<>>]

\* main: generate_chase_mixer(&genchase_args, nr_threads * parallelism)
BuildMixer ==
    /\ args.nr_mixers = 0
    /\ \E lz0 \in ClzlOfZero :
       \E draws \in [0 .. Pow2(64 - clzl(args.nr_chases - 1, lz0)) - 1
                        -> DrawsFor(args.ordered, args.nr_mixer_indices)] :
            args' = generate_chase_mixer(args, args.nr_chases, lz0, draws)
    /\ UNCHANGED <<mem, cycle, owner, last_perm, besidesChase>>

\* thread_start: cycle[par] = generate_chase(genchase_args, mixer_idx)
BuildChase(mixer_idx) ==
    /\ args.nr_mixers # 0
    /\ cycle[mixer_idx] = 0
    /\ \E d \in ChaseDraws(args) :
        LET g == generate_chase(args, mem, mixer_idx, d) IN
        /\ mem' = g.mem
        /\ cycle' = [cycle EXCEPT ![mixer_idx] = g.head]
        /\ last_perm' = [last_perm EXCEPT ![mixer_idx] = chase_perm(args, d)]
    /\ owner' = [b \in StoredBytes(args, mixer_idx) |->
                    IF b \notin DOMAIN owner THEN mixer_idx
                    ELSE IF owner[b] = mixer_idx THEN mixer_idx
                    ELSE Clash] @@ owner
    /\ UNCHANGED <<args, besidesChase>>

ChaseNext ==
    \/ BuildMixer
    \/ \E mixer_idx \in DOMAIN cycle : BuildChase(mixer_idx)

(***************************************************************************)
(* The start barrier of thread_start and main (multichase.c:494-505 and    *)
(* 749-770, multiload.c:743-758 and 1148-1208).  pthread_cond_wait may     *)
(* return without a broadcast (a spurious wakeup, which POSIX allows).     *)
(***************************************************************************)
Free == 0 - 1
\* main's identity as a holder of wait_mutex
Main == 0 - 2

Workers == 0 .. nr_threads - 1

BarrierIdle ==
    /\ nr_threads = 0
    /\ nr_to_startup = 0
    /\ wait_mutex = Free
    /\ created = 0
    /\ pc = <<>>
    /\ main_pc = "idle"

\* main at nr_to_startup = nr_threads, before the first pthread_create
BarrierInit ==
    /\ nr_threads \in 1 .. MaxThreads
    /\ nr_to_startup = nr_threads
    /\ wait_mutex = Free
    /\ created = 0
    /\ pc = [t \in 0 .. nr_threads - 1 |-> "unborn"]
    /\ main_pc = "create"

\* main: pthread_create(&thread, NULL, thread_start, &thread_data[i])
MainCreate ==
    /\ main_pc = "create"
    /\ created < nr_threads
    /\ pc' = [pc EXCEPT ![created] = "build"]
    /\ created' = created + 1
    /\ UNCHANGED <<nr_threads, nr_to_startup, wait_mutex, main_pc, besidesBarrier>>

\* main: pthread_mutex_lock(&wait_mutex) after the creation loop
MainLock ==
    /\ main_pc = "create"
    /\ created = nr_threads
    /\ wait_mutex = Free
    /\ wait_mutex' = Main
    /\ main_pc' = "check"
    /\ UNCHANGED <<nr_threads, nr_to_startup, created, pc, besidesBarrier>>

\* main: if (nr_to_startup) pthread_cond_wait(&wait_cond, &wait_mutex);
\* the wait releases the mutex
MainCheck ==
    /\ main_pc = "check"
    /\ IF nr_to_startup # 0
       THEN main_pc' = "wait" /\ wait_mutex' = Free
       ELSE main_pc' = "unlock" /\ UNCHANGED wait_mutex
    /\ UNCHANGED <<nr_threads, nr_to_startup, created, pc, besidesBarrier>>

\* main's pthread_cond_wait returns without a broadcast
MainSpuriousWakeup ==
    /\ main_pc = "wait"
    /\ main_pc' = "woken"
    /\ UNCHANGED <<nr_threads, nr_to_startup, wait_mutex, created, pc, besidesBarrier>>

\* main's pthread_cond_wait takes the mutex again before it returns
MainReacquire ==
    /\ main_pc = "woken"
    /\ wait_mutex = Free
    /\ wait_mutex' = Main
    /\ main_pc' = "unlock"
    /\ UNCHANGED <<nr_threads, nr_to_startup, created, pc, besidesBarrier>>

\* main: pthread_mutex_unlock(&wait_mutex), then the sampling loop starts
MainUnlock ==
    /\ main_pc = "unlock"
    /\ wait_mutex' = Free
    /\ main_pc' = "sample"
    /\ UNCHANGED <<nr_threads, nr_to_startup, created, pc, besidesBarrier>>

\* thread_start up to the barrier: the chase or the load buffer is built
ThreadBuild(t) ==
    /\ pc[t] = "build"
    /\ pc' = [pc EXCEPT ![t] = "lock"]
    /\ UNCHANGED <<nr_threads, nr_to_startup, wait_mutex, created, main_pc, besidesBarrier>>

\* thread_start: pthread_mutex_lock(&wait_mutex)
ThreadLock(t) ==
    /\ pc[t] = "lock"
    /\ wait_mutex = Free
    /\ wait_mutex' = t
    /\ pc' = [pc EXCEPT ![t] = "arrive"]
    /\ UNCHANGED <<nr_threads, nr_to_startup, created, main_pc, besidesBarrier>>

\* thread_start's arrival with the broadcast left out
ThreadArriveSilent(t) ==
    /\ pc[t] = "arrive"
    /\ nr_to_startup' = nr_to_startup - 1
    /\ IF nr_to_startup - 1 # 0
       THEN /\ pc' = [pc EXCEPT ![t] = "wait"]
            /\ wait_mutex' = Free
       ELSE /\ pc' = [pc EXCEPT ![t] = "unlock"]
            /\ UNCHANGED wait_mutex
    /\ UNCHANGED <<nr_threads, created, main_pc, besidesBarrier>>

\* thread_start: --nr_to_startup; then pthread_cond_wait, which releases
\* the mutex, or pthread_cond_broadcast, which wakes every waiter
ThreadArrive(t) ==
    /\ pc[t] = "arrive"
    /\ nr_to_startup' = nr_to_startup - 1
    /\ IF nr_to_startup - 1 # 0
       THEN /\ pc' = [pc EXCEPT ![t] = "wait"]
            /\ wait_mutex' = Free
            /\ UNCHANGED main_pc
       ELSE /\ pc' = [u \in DOMAIN pc |->
                        IF u = t THEN "unlock"
                        ELSE IF pc[u] = "wait" THEN "woken"
                        ELSE pc[u]]
            /\ main_pc' = IF main_pc = "wait" THEN "woken" ELSE main_pc
            /\ UNCHANGED wait_mutex
    /\ UNCHANGED <<nr_threads, created, besidesBarrier>>

\* a worker's pthread_cond_wait returns without a broadcast
ThreadSpuriousWakeup(t) ==
    /\ pc[t] = "wait"
    /\ pc' = [pc EXCEPT ![t] = "woken"]
    /\ UNCHANGED <<nr_threads, nr_to_startup, wait_mutex, created, main_pc, besidesBarrier>>

\* a worker's pthread_cond_wait takes the mutex again before it returns
ThreadReacquire(t) ==
    /\ pc[t] = "woken"
    /\ wait_mutex = Free
    /\ wait_mutex' = t
    /\ pc' = [pc EXCEPT ![t] = "unlock"]
    /\ UNCHANGED <<nr_threads, nr_to_startup, created, main_pc, besidesBarrier>>

\* thread_start: pthread_mutex_unlock(&wait_mutex); the kernel function
\* (chase->fn or memload->fn) is called next
ThreadUnlock(t) ==
    /\ pc[t] = "unlock"
    /\ wait_mutex' = Free
    /\ pc' = [pc EXCEPT ![t] = "kernel"]
    /\ UNCHANGED <<nr_threads, nr_to_startup, created, main_pc, besidesBarrier>>

BarrierNext ==
    \/ MainCreate
    \/ MainLock
    \/ MainCheck
    \/ MainSpuriousWakeup
    \/ MainReacquire
    \/ MainUnlock
    \/ \E t \in Workers : ThreadBuild(t)
    \/ \E t \in Workers : ThreadLock(t)
    \/ \E t \in Workers : ThreadArrive(t)
    \/ \E t \in Workers : ThreadSpuriousWakeup(t)
    \/ \E t \in Workers : ThreadReacquire(t)
    \/ \E t \in Workers : ThreadUnlock(t)

(***************************************************************************)
(* A chase kernel's iteration counter and the sampler's swap               *)
(* (multichase.c:93-146 and 782-786, multiload.c:116-125).                 *)
(***************************************************************************)
\* the constants the kernels add: simple, parallel2 .. parallel10, work,
\* incr, prefetch / movdqa / movntdqa / critword2
UnrollFactors ==
    {200, 2 * 100, 3 * 66, 4 * 50, 5 * 40, 6 * 32, 7 * 28, 8 * 24, 9 * 22, 10 * 20,
     25, 50, 100}

\* __sync_add_and_fetch(&t->x.count, n) on the unsigned counter
add_and_fetch(c, n) == (c + n) % Pow2(CountBits)

CountIdle ==
    /\ unroll = 0
    /\ count = 0
    /\ prev_count = 0
    /\ cur_samples = 0
    /\ kernel_pc = "idle"

\* a worker entering its kernel: thread_data is zeroed memory
CountInit ==
    /\ unroll \in UnrollFactors
    /\ count = 0
    /\ prev_count = 0
    /\ cur_samples = 0
    /\ kernel_pc = "loop"

\* one trip of do { x200(...) } while (__sync_add_and_fetch(&t->x.count, 200));
\* a result of 0 ends the loop and the kernel function returns
KernelIterate ==
    /\ kernel_pc = "loop"
    /\ prev_count' = count
    /\ count' = add_and_fetch(count, unroll)
    /\ kernel_pc' = IF add_and_fetch(count, unroll) = 0 THEN "returned" ELSE "loop"
    /\ UNCHANGED <<unroll, cur_samples, besidesCount>>

\* main: cur_samples[i] = __sync_lock_test_and_set(&thread_data[i].x.count, 0)
SamplerSwap ==
    /\ kernel_pc # "idle"
    /\ cur_samples' = count
    /\ count' = 0
    /\ prev_count' = 0
    /\ UNCHANGED <<unroll, kernel_pc, besidesCount>>

CountNext == KernelIterate \/ SamplerSwap

(***************************************************************************)
(* The sampling loop of main and its report (multichase.c:773-823,         *)
(* multiload.c:1214-1355).  A round's figure is drawn from 1 .. MaxFigure. *)
(***************************************************************************)
\* 1./0., the start value of best and chase_min
Infinity == MaxFigure + 1

SizeMod == Pow2(SampleBits)

SamplerIdle ==
    /\ program = "idle"
    /\ nr_samples_arg = 0
    /\ nr_samples = 0
    /\ sample_no = 0
    /\ nr_chase_threads = 0
    /\ nr_load_threads = 0
    /\ running_sum = 0
    /\ best = 0
    /\ load_running_sum = 0
    /\ contributors = <<>>
    /\ load_contributors = <<>>
    /\ divisor = 0
    /\ rounds = 0
    /\ sampler_pc = "idle"

\* main after the start barrier: nr_samples is whatever strtoul returned for
\* -n (any size_t: "-1" parses as SIZE_MAX), or DEF_NR_SAMPLES
SamplerInit ==
    /\ program \in {"multichase", "multiload"}
    /\ nr_samples_arg \in 0 .. SizeMod - 1
    /\ nr_samples = nr_samples_arg
    /\ sample_no = 0
    /\ nr_chase_threads \in 0 .. 1
    /\ nr_load_threads \in 0 .. 1
    /\ nr_chase_threads + nr_load_threads >= 1
    /\ program = "multichase" => nr_load_threads = 0
    /\ running_sum = 0
    /\ best = Infinity
    /\ load_running_sum = 0
    /\ contributors = <<>>
    /\ load_contributors = <<>>
    /\ divisor = 0
    /\ rounds = 0
    /\ sampler_pc = "start"

\* nr_samples = nr_samples + 1;  // we drop the first sample
StartSampling ==
    /\ sampler_pc = "start"
    /\ nr_samples' = (nr_samples + 1) % SizeMod
    /\ sampler_pc' = "loop"
    /\ UNCHANGED <<program, nr_samples_arg, sample_no, nr_chase_threads,
                   nr_load_threads, running_sum, best, load_running_sum,
                   contributors, load_contributors, divisor, rounds,
                   besidesSampler>>

\* the condition of the for loop
SamplingContinues == nr_samples = 1 \/ sample_no < nr_samples

\* whether the round adds to the chase aggregates: always in multichase.c,
\* if (chase_thd_sum != 0) in multiload.c
AddsChase(chase_thd_sum) ==
    IF program = "multichase" THEN TRUE ELSE chase_thd_sum # 0

\* one trip of the sampling loop.  chase_thd_sum and load_thd_sum are the
\* sums of the swapped counts (multiload.c polls each thread until its count
\* is not zero), t is time_delta / sum.
SampleRound ==
    /\ sampler_pc = "loop"
    /\ SamplingContinues
    /\ Len(contributors) < SizeMod /\ Len(load_contributors) < SizeMod
    /\ \E chase_thd_sum \in (IF nr_chase_threads > 0 THEN 1 .. MaxFigure ELSE {0}),
          load_thd_sum \in (IF nr_load_threads > 0 THEN 1 .. MaxFigure ELSE {0}),
          t \in 1 .. MaxFigure :
        IF sample_no = 0
        THEN UNCHANGED <<running_sum, best, load_running_sum, contributors,
                         load_contributors>>
        ELSE /\ IF AddsChase(chase_thd_sum)
                THEN /\ running_sum' = running_sum + t
                     /\ best' = Min(t, best)
                     /\ contributors' = Append(contributors, sample_no)
                ELSE UNCHANGED <<running_sum, best, contributors>>
             /\ IF program = "multiload" /\ load_thd_sum # 0
                THEN /\ load_running_sum' = load_running_sum + load_thd_sum
                     /\ load_contributors' = Append(load_contributors, sample_no)
                ELSE UNCHANGED <<load_running_sum, load_contributors>>
    /\ sample_no' = (sample_no + 1) % SizeMod
    /\ rounds' = rounds + 1
    /\ UNCHANGED <<program, nr_samples_arg, nr_samples, nr_chase_threads,
                   nr_load_threads, divisor, sampler_pc, besidesSampler>>

\* after the loop: the means divide by nr_samples - 1
Report ==
    /\ sampler_pc = "loop"
    /\ ~SamplingContinues
    /\ divisor' = (nr_samples - 1) % SizeMod
    /\ sampler_pc' = "reported"
    /\ UNCHANGED <<program, nr_samples_arg, nr_samples, sample_no,
                   nr_chase_threads, nr_load_threads, running_sum, best,
                   load_running_sum, contributors, load_contributors, rounds,
                   besidesSampler>>

SamplerNext == StartSampling \/ SampleRound \/ Report

(***************************************************************************)
(* The sampling protocol between main and the bandwidth workers            *)
(* (multiload.c:418-448 and 1226-1261).  A worker's pass through           *)
(* LOAD_MEMORY_SAMPLE_MIBPS is three steps: the read of sample_no, the     *)
(* test that reads count, and the atomic add.                              *)
(***************************************************************************)
LoadWorkers == 0 .. bw_threads - 1

\* (size_t)-1, the start value of cur_sample
NoSample == 0 - 1

\* the test without the comparison of cur_sample and nxt_sample
ShouldPublishWheneverZero(cur, nxt, cnt) == cnt = 0

\* if ((cur_sample != nxt_sample) && (t->x.count == 0))
ShouldPublish(cur, nxt, cnt) == cur # nxt /\ cnt = 0

BwIdle ==
    /\ bw_threads = 0
    /\ bw_nr_samples = 0
    /\ bw_sample_no = 0
    /\ bw_i = 0
    /\ bw_pc = "idle"
    /\ x_sample_no = <<>>
    /\ x_count = <<>>
    /\ cur_sample = <<>>
    /\ nxt_sample = <<>>
    /\ load_pc = <<>>
    /\ stores = <<>>
    /\ in_count = <<>>
    /\ published = <<>>
    /\ collected = <<>>

\* after the start barrier and nr_samples = nr_samples + 1: thread_data is
\* zeroed memory, every worker is at LOAD_MEMORY_INIT_MIBPS
BwInit ==
    /\ bw_threads \in 1 .. MaxLoadThreads
    /\ bw_nr_samples \in 2 .. MaxLoadRounds + 1
    /\ bw_sample_no = 0
    /\ bw_i = 0
    /\ bw_pc = "store"
    /\ x_sample_no = [t \in 0 .. bw_threads - 1 |-> 0]
    /\ x_count = [t \in 0 .. bw_threads - 1 |-> 0]
    /\ cur_sample = [t \in 0 .. bw_threads - 1 |-> NoSample]
    /\ nxt_sample = [t \in 0 .. bw_threads - 1 |-> 0]
    /\ load_pc = [t \in 0 .. bw_threads - 1 |-> "read"]
    /\ stores = [t \in 0 .. bw_threads - 1 |-> 0]
    /\ in_count = [t \in 0 .. bw_threads - 1 |-> <<>>]
    /\ published = [t \in 0 .. bw_threads - 1 |-> <<>>]
    /\ collected = [t \in 0 .. bw_threads - 1 |-> [round |-> NoSample, pubs |-> <<>>, val |-> 0]]

\* worker: loops++; nxt_sample = t->x.sample_no;
LoadRead(t) ==
    /\ load_pc[t] = "read"
    /\ nxt_sample' = [nxt_sample EXCEPT ![t] = x_sample_no[t]]
    /\ load_pc' = [load_pc EXCEPT ![t] = "test"]
    /\ UNCHANGED <<bw_threads, bw_nr_samples, bw_sample_no, bw_i, bw_pc, x_sample_no,
                   x_count, cur_sample, stores, in_count, published, collected,
                   besidesBw>>

\* worker: the if of LOAD_MEMORY_SAMPLE_MIBPS
LoadTest(t) ==
    /\ load_pc[t] = "test"
    /\ load_pc' = [load_pc EXCEPT ![t] =
            IF ShouldPublish(cur_sample[t], nxt_sample[t], x_count[t])
            THEN "add" ELSE "read"]
    /\ UNCHANGED <<bw_threads, bw_nr_samples, bw_sample_no, bw_i, bw_pc, x_sample_no,
                   x_count, cur_sample, nxt_sample, stores, in_count, published,
                   collected, besidesBw>>

\* worker: __sync_add_and_fetch(&t->x.count, (uint64_t)mibps);
\* cur_sample = nxt_sample; the figure may truncate to 0
LoadPublish(t) ==
    /\ load_pc[t] = "add"
    /\ \E mibps \in 0 .. MaxMibps :
        /\ x_count' = [x_count EXCEPT ![t] = @ + mibps]
        /\ in_count' = [in_count EXCEPT ![t] =
                Append(@, [req |-> nxt_sample[t], after |-> stores[t], fig |-> mibps])]
    /\ published' = [published EXCEPT ![t] = Append(@, nxt_sample[t])]
    /\ cur_sample' = [cur_sample EXCEPT ![t] = nxt_sample[t]]
    /\ load_pc' = [load_pc EXCEPT ![t] = "read"]
    /\ UNCHANGED <<bw_threads, bw_nr_samples, bw_sample_no, bw_i, bw_pc, x_sample_no,
                   nxt_sample, stores, collected, besidesBw>>

\* main: thread_data[i].x.sample_no = sample_no, for one i of the loop
MainStore ==
    /\ bw_pc = "store"
    /\ x_sample_no' = [x_sample_no EXCEPT ![bw_i] = bw_sample_no]
    /\ stores' = [stores EXCEPT ![bw_i] = @ + 1]
    /\ IF bw_i + 1 < bw_threads
       THEN bw_i' = bw_i + 1 /\ UNCHANGED bw_pc
       ELSE bw_i' = 0 /\ bw_pc' = "poll"
    /\ UNCHANGED <<bw_threads, bw_nr_samples, bw_sample_no, x_count, cur_sample,
                   nxt_sample, load_pc, in_count, published, collected, besidesBw>>

\* main: cur_samples[i] = __sync_lock_test_and_set(&thread_data[i].x.count, 0)
\* inside while (ready == 0); a nonzero value ends the wait for thread i, and
\* after the last thread the for loop goes on to the next round or ends
MainPoll ==
    /\ bw_pc = "poll"
    /\ x_count' = [x_count EXCEPT ![bw_i] = 0]
    /\ in_count' = [in_count EXCEPT ![bw_i] = <<>>]
    /\ IF x_count[bw_i] # 0
       THEN /\ collected' = [collected EXCEPT ![bw_i] =
                    [round |-> bw_sample_no, pubs |-> in_count[bw_i],
                     val |-> x_count[bw_i]]]
            /\ IF bw_i + 1 < bw_threads
               THEN bw_i' = bw_i + 1 /\ UNCHANGED <<bw_sample_no, bw_pc>>
               ELSE /\ bw_i' = 0
                    /\ bw_sample_no' = bw_sample_no + 1
                    /\ bw_pc' = IF bw_sample_no + 1 < bw_nr_samples
                                THEN "store" ELSE "done"
       ELSE UNCHANGED <<collected, bw_i, bw_sample_no, bw_pc>>
    /\ UNCHANGED <<bw_threads, bw_nr_samples, x_sample_no, cur_sample, nxt_sample,
                   load_pc, stores, published, besidesBw>>

BwNext ==
    \/ MainStore
    \/ MainPoll
    \/ \E t \in LoadWorkers : LoadRead(t)
    \/ \E t \in LoadWorkers : LoadTest(t)
    \/ \E t \in LoadWorkers : LoadPublish(t)

\* p = *(void **)p, repeated from head until head comes back, a wild pointer
\* is loaded, or fuel steps were taken
RECURSIVE follow(_, _, _, _, _, _)
follow(m, size, head, p, cells, fuel) ==
    LET n == LoadPtr(m, size, p) IN
    IF n = head THEN [cells |-> Append(cells, p), closed |-> TRUE]
    ELSE IF fuel = 0 \/ n = Wild THEN [cells |-> Append(cells, p), closed |-> FALSE]
    ELSE follow(m, size, head, n, Append(cells, p), fuel - 1)

\* the cells a chase kernel visits from cycle[c]
ChaseWalk(c) ==
    follow(mem, args.offset + args.total_memory, cycle[c], cycle[c], <<>>,
           nr_elts_of(args))

ChaseActive == DOMAIN cycle # {}
Built(c) == cycle[c] # 0

(***************************************************************************)
(* The branch-chase rewriter (asm.c, br_asm.c) and the execution of the    *)
(* code it emits.  The arena is mapped in whole pages, so bytes behind the *)
(* last element read as zero and can be written.                           *)
(***************************************************************************)
PageSize == 4 * 1024

BranchVariants == {"asm.c", "br_asm.c"} \X {"x86_64", "aarch64"}

\* the strides of the modelled cycles
BranchStrides == {8, 16, 24}

\* const int br_code_len
br_code_len(arch) == IF arch = "x86_64" THEN 12 ELSE 16

\* the bytes seq stored from addr on
StoreBytes(m, addr, seq) ==
    LET o == addr - RegionBase
    IN [b \in o .. o + Len(seq) - 1 |-> seq[b - o + 1]] @@ m

\* the n bytes from addr on
LoadBytes(m, addr, n) == [i \in 1 .. n |-> ByteAt(m, addr - RegionBase + i - 1)]

\* the value of little-endian bytes, Wild when it is no address of the model
ValueOf(bytes) ==
    IF \E i \in 4 .. Len(bytes) : bytes[i] # 0 THEN Wild
    ELSE bytes[1] + 256 * bytes[2] + 65536 * bytes[3]

\* movabs $imm64, %rax
x64_emit_mov_imm64_rax(imm64) == <<72, 184>> \o [i \in 1 .. 8 |-> ByteOf(imm64, i - 1)]

\* jmp *%rax
x64_emit_jmp_to_rax == <<255, 224>>

\* ret
x64_emit_ret == <<195>>

\* *(int *)p = word, the word given as its upper and its lower 16 bits
WordBytes(hi16, lo16) == <<lo16 % 256, lo16 \div 256, hi16 % 256, hi16 \div 256>>

\* (0b110100101 << 23) | rmask_lsh(shift16, 16, 21) | rmask_lsh(imm16, 16, 5)
\* | rmask_lsh(rd, 5, 0)
arm_emit_movz(rd, imm16, shift16) ==
    WordBytes(53888 + 32 * shift16 + (imm16 \div 2048), (imm16 % 2048) * 32 + rd)

\* (0b111100101 << 23) | ... as in arm_emit_movz
arm_emit_movk(rd, imm16, shift16) ==
    WordBytes(62080 + 32 * shift16 + (imm16 \div 2048), (imm16 % 2048) * 32 + rd)

\* 0b11010110000111110000000000000000 | rmask_lsh(rs, 5, 5)
arm_emit_br(rs) == WordBytes(54815, rs * 32)

\* 0xd65f03c0
arm_emit_ret == WordBytes(54879, 960)

\* the code of an element with the branch emitted also at the end of a chunk
BranchCodeNoReturn(arch, next, last) ==
    IF arch = "x86_64"
    THEN x64_emit_mov_imm64_rax(next) \o x64_emit_jmp_to_rax
    ELSE arm_emit_movz(0, next % 65536, 0)
         \o arm_emit_movk(0, (next \div 65536) % 65536, 1)
         \o arm_emit_movk(0, 0, 2)
         \o arm_emit_br(0)

\* the code written at an element: the load of next into the pointer register
\* and the branch to it, or the return at the end of a chunk
BranchCode(arch, next, last) ==
    IF arch = "x86_64"
    THEN x64_emit_mov_imm64_rax(next)
         \o (IF last THEN x64_emit_ret ELSE x64_emit_jmp_to_rax)
    ELSE arm_emit_movz(0, next % 65536, 0)
         \o arm_emit_movk(0, (next \div 65536) % 65536, 1)
         \o arm_emit_movk(0, 0, 2)
         \o (IF last THEN arm_emit_ret ELSE arm_emit_br(0))

\* cycle_len(p)
cycle_len(m, size, p) == Len(follow(m, size, p, p, <<>>, MaxBranchElts + 1).cells)

\* lround(log2(1.0 * remain / chunk_size)) for remain >= chunk_size >= 1: the
\* k with 2^(k - 1/2) <= remain / chunk_size < 2^(k + 1/2)
RECURSIVE lround_log2(_, _, _)
lround_log2(remain, chunk_size, k) ==
    IF remain * remain < Pow2(2 * k + 1) * chunk_size * chunk_size THEN k
    ELSE lround_log2(remain, chunk_size, k + 1)

\* chunk_size = (remain < chunk_size) ? remain : remain / (1 << lround(...))
effective_chunk_size(remain, chunk_size) ==
    IF remain < chunk_size THEN remain
    ELSE remain \div Pow2(lround_log2(remain, chunk_size, 0))

\* whether the int division a / b traps: x86_64 idiv raises SIGFPE on b = 0
DivTraps(arch, b) == b = 0 /\ arch = "x86_64"

\* a / b where it does not trap: aarch64 sdiv yields 0 on b = 0
IntDiv(a, b) == IF b = 0 THEN 0 ELSE a \div b

\* the do-while loop of convert_pointers_to_branches from element p on
RECURSIVE rewrite_loop(_, _, _, _, _, _, _, _)
rewrite_loop(arch, m, size, head, p, remain, chunk_count, chunks_remaining) ==
    LET next == LoadPtr(m, size, p)
        started == IF chunk_count = 0 THEN IntDiv(remain, chunks_remaining)
                   ELSE chunk_count
        last == started - 1 = 0
        m1 == StoreBytes(m, p, BranchCode(arch, next, last))
        left == IF last THEN chunks_remaining - 1 ELSE chunks_remaining
    IN IF chunk_count = 0 /\ DivTraps(arch, chunks_remaining)
       THEN [how |-> "sigfpe", mem |-> m, remain |-> remain, chunks_remaining |-> chunks_remaining]
       ELSE IF \E i \in 8 .. br_code_len(arch) - 1 : ByteAt(m, p - RegionBase + i) # 0
       THEN [how |-> "exit", mem |-> m, remain |-> remain, chunks_remaining |-> chunks_remaining]
       ELSE IF next = head
       THEN [how |-> "done", mem |-> m1, remain |-> remain - 1,
             chunks_remaining |-> left]
       ELSE rewrite_loop(arch, m1, size, head, next, remain - 1, started - 1, left)

\* convert_pointers_to_branches(head, chunk_size): how it ends ("returned",
\* "exit" for exit(1), "sigfpe" for the trap of a division by zero), the
\* memory it leaves and the value it returns
convert_pointers_to_branches(variant, m, size, head, chunk_size) ==
    LET arch == variant[2]
        remain == cycle_len(m, size, head)
        base_chunk_size == effective_chunk_size(remain, chunk_size)
        r == rewrite_loop(arch, m, size, head, head, remain, 0,
                          IntDiv(remain, base_chunk_size))
    IN IF DivTraps(arch, base_chunk_size)
       THEN [how |-> "sigfpe", mem |-> m, ret |-> 0]
       ELSE IF r.how # "done"
       THEN [how |-> r.how, mem |-> r.mem, ret |-> 0]
       ELSE IF variant[1] = "asm.c" /\ (r.remain # 0 \/ r.chunks_remaining > 0)
       THEN [how |-> "exit", mem |-> r.mem, ret |-> 0]
       ELSE [how |-> "returned", mem |-> r.mem, ret |-> base_chunk_size]

\* what the processor does with the bytes at p: "jump" or "ret" with the
\* loaded address, "fault" when they are not the emitted instructions
Decode(arch, m, p) ==
    IF arch = "x86_64"
    THEN LET c == LoadBytes(m, p, 12)
             imm == ValueOf([i \in 1 .. 8 |-> c[i + 2]])
         IN IF c[1] # 72 \/ c[2] # 184 \/ imm = Wild THEN [op |-> "fault", to |-> Wild]
            ELSE IF c[11] = 195 THEN [op |-> "ret", to |-> imm]
            ELSE IF c[11] = 255 /\ c[12] = 224 THEN [op |-> "jump", to |-> imm]
            ELSE [op |-> "fault", to |-> Wild]
    ELSE LET c == LoadBytes(m, p, 16)
             lo(w) == c[4 * w + 1] + 256 * c[4 * w + 2]
             hi(w) == c[4 * w + 3] + 256 * c[4 * w + 4]
             imm16(w) == ((hi(w) % 32) * 2048) + (lo(w) \div 32)
             isload(w, opc) == (hi(w) \div 32) * 32 = opc + 32 * w /\ lo(w) % 32 = 0
         IN IF ~isload(0, 53888) \/ ~isload(1, 62080) \/ ~isload(2, 62080)
               \/ imm16(2) # 0 \/ imm16(1) >= 256
            THEN [op |-> "fault", to |-> Wild]
            ELSE IF hi(3) = 54879 /\ lo(3) = 960
            THEN [op |-> "ret", to |-> imm16(0) + 65536 * imm16(1)]
            ELSE IF hi(3) = 54815 /\ lo(3) = 0
            THEN [op |-> "jump", to |-> imm16(0) + 65536 * imm16(1)]
            ELSE [op |-> "fault", to |-> Wild]

\* one call of the function at p: the elements executed up to the return
RECURSIVE run_chunk(_, _, _, _, _, _)
run_chunk(arch, m, size, p, seen, fuel) ==
    LET d == IF p - RegionBase < 0 \/ p - RegionBase + br_code_len(arch) > size
             THEN [op |-> "fault", to |-> Wild]
             ELSE Decode(arch, m, p)
    IN IF d.op = "fault" THEN [how |-> "fault", to |-> Wild, seen |-> seen]
       ELSE IF d.op = "ret" THEN [how |-> "ready", to |-> d.to, seen |-> Append(seen, p)]
       ELSE IF fuel = 0 THEN [how |-> "hung", to |-> Wild, seen |-> Append(seen, p)]
       ELSE run_chunk(arch, m, size, d.to, Append(seen, p), fuel - 1)

\* the arguments of generate_chase for one unmixed cycle of n elements
BranchArgs(stride, n, ordered) ==
    [arena |-> RegionBase, total_memory |-> stride * n, stride |-> stride,
     tlb_locality |-> stride * n, nr_mixers |-> 1, ordered |-> ordered,
     nr_mixer_indices |-> 1, mixer |-> [k \in 0 .. 0 |-> 0],
     base_object_size |-> stride, offset |-> 0, nr_chases |-> 1]

BranchIdle ==
    /\ br_variant = <<>>
    /\ br_size = 0
    /\ br_mem = <<>>
    /\ br_head = 0
    /\ br_chunk_size = 0
    /\ br_order = <<>>
    /\ br_pc = "idle"
    /\ br_ret = 0
    /\ exec_p = 0
    /\ exec_pc = "idle"
    /\ calls = 0
    /\ visited = <<>>

\* a pointer cycle built by generate_chase in a zeroed arena
BranchInit ==
    \E variant \in BranchVariants, stride \in BranchStrides, n \in 1 .. MaxBranchElts,
       ordered \in BOOLEAN, chunk_size \in 1 .. MaxChunk :
    \E d \in ChaseDraws(BranchArgs(stride, n, ordered)) :
        LET g == generate_chase(BranchArgs(stride, n, ordered), <<>>, 0, d)
            size == ((stride * n + PageSize - 1) \div PageSize) * PageSize
        IN /\ br_variant = variant
           /\ br_size = size
           /\ br_mem = g.mem
           /\ br_head = g.head
           /\ br_chunk_size = chunk_size
           /\ br_order = follow(g.mem, size, g.head, g.head, <<>>, n).cells
           /\ br_pc = "built"
           /\ br_ret = 0
           /\ exec_p = g.head
           /\ exec_pc = "ready"
           /\ calls = 0
           /\ visited = <<>>

\* convert_pointers_to_branches(head, chunk_size)
Convert ==
    /\ br_pc = "built"
    /\ LET r == convert_pointers_to_branches(br_variant, br_mem, br_size, br_head,
                                             br_chunk_size)
       IN /\ br_mem' = r.mem
          /\ br_pc' = r.how
          /\ br_ret' = r.ret
    /\ UNCHANGED <<br_variant, br_size, br_head, br_chunk_size, br_order, exec_p,
                   exec_pc, calls, visited, besidesBranch>>

\* p = ((void *(*)(void))p)(): one call into the emitted code; the walk is
\* followed for two laps at most
Call ==
    /\ br_pc = "returned"
    /\ exec_pc = "ready"
    /\ Len(visited) < 2 * Len(br_order)
    /\ LET r == run_chunk(br_variant[2], br_mem, br_size, exec_p, <<>>, Len(br_order))
       IN /\ exec_pc' = r.how
          /\ exec_p' = r.to
          /\ visited' = visited \o r.seen
    /\ calls' = calls + 1
    /\ UNCHANGED <<br_variant, br_size, br_mem, br_head, br_chunk_size, br_order,
                   br_pc, br_ret, besidesBranch>>

BranchNext == Convert \/ Call

(***************************************************************************)
(* main from getopt to the creation of the threads (multichase.c:518-763,  *)
(* multiload.c:768-1199): the -c and -l options, the normalisation of      *)
(* stride, tlb_locality and total_memory, the check of nr_mixer_indices    *)
(* and the mixer indices the threads pass to generate_chase.               *)
(***************************************************************************)
\* the entries of chases[] the model selects from: base_object_size and
\* parallelism
chases(which) ==
    LET simple == [base_object_size |-> PtrSize, parallelism |-> 1]
        parallel2 == [base_object_size |-> PtrSize, parallelism |-> 2]
        movdqa == [base_object_size |-> 64, parallelism |-> 1]
    IN IF which = "multichase"
       THEN [n \in {"simple", "parallel2", "movdqa"} |->
                CASE n = "simple" -> simple [] n = "parallel2" -> parallel2
                  [] OTHER -> movdqa]
       ELSE [n \in {"simple", "chaseload", "parallel2", "movdqa"} |->
                CASE n \in {"simple", "chaseload"} -> simple
                  [] n = "parallel2" -> parallel2 [] OTHER -> movdqa]

\* the entries of memloads[] the model selects from
memloads == {"memcpy-libc"}

\* the options of a command line: -c with a chase name, known or not, and -l
Options(which) ==
    [opt : {"c"}, arg : DOMAIN chases(which) \cup {"nosuch"}]
        \cup [opt : {"l"}, arg : memloads]

\* the command lines of at most MaxOptions options, none given twice
CommandLines(which) ==
    {s \in UNION {[1 .. n -> Options(which)] : n \in 0 .. MaxOptions} :
        \A i, j \in 1 .. Len(s) : i # j => s[i] # s[j]}

\* the sizes -s, -T and -m can give
Strides == {k * SizeUnit : k \in 1 .. MaxStrideUnits}
TlbLocalities == {k * SizeUnit : k \in 0 .. MaxTlbUnits}
TotalMemories == {1} \cup {k * SizeUnit : k \in 1 .. MaxMemUnits}

SetupIdle ==
    /\ tool = "none"
    /\ cmdline = <<>>
    /\ argv = <<>>
    /\ requested = <<>>
    /\ genchase_args = <<>>
    /\ setup_nr_threads = 0
    /\ run_test_type = "RUN_CHASE"
    /\ chase = "simple"
    /\ setup_pc = "idle"
    /\ mixer_built = FALSE
    /\ arena_allocated = FALSE
    /\ thread_type = <<>>
    /\ passed = {}

\* main at the first getopt: chase = &chases[0], run_test_type = RUN_CHASE;
\* stride, tlb_locality, total_memory and nr_threads stand for what -s, -T,
\* -m and -t set
SetupInit ==
    /\ tool \in {"multichase", "multiload"}
    /\ cmdline \in CommandLines(tool)
    /\ argv = cmdline
    /\ requested \in [stride : Strides, tlb_locality : TlbLocalities,
                      total_memory : TotalMemories]
    /\ genchase_args = [stride |-> requested.stride,
                        tlb_locality |-> requested.tlb_locality,
                        total_memory |-> requested.total_memory,
                        nr_mixer_indices |-> 0]
    /\ setup_nr_threads \in 1 .. MaxSetupThreads
    /\ run_test_type = "RUN_CHASE"
    /\ chase = "simple"
    /\ setup_pc = "getopt"
    /\ mixer_built = FALSE
    /\ arena_allocated = FALSE
    /\ thread_type = <<>>
    /\ passed = {}

\* case 'c'
GetoptChase ==
    /\ setup_pc = "getopt"
    /\ argv # <<>>
    /\ Head(argv).opt = "c"
    /\ argv' = Tail(argv)
    /\ LET name == Head(argv).arg
       IN IF name \notin DOMAIN chases(tool)
          THEN /\ setup_pc' = "usage"
               /\ UNCHANGED <<chase, run_test_type>>
          ELSE /\ chase' = name
               /\ IF tool = "multiload" /\ name = "chaseload"
                  THEN /\ run_test_type' = "RUN_CHASE_LOADED"
                       /\ setup_pc' = "getopt"
                  ELSE /\ run_test_type' = run_test_type
                       /\ setup_pc' = IF tool = "multiload"
                                         /\ run_test_type = "RUN_BANDWIDTH"
                                      THEN "usage" ELSE "getopt"
    /\ UNCHANGED <<tool, cmdline, requested, genchase_args, setup_nr_threads,
                   mixer_built, arena_allocated, thread_type, passed, besidesSetup>>

\* case 'l'; multichase has no -l and getopt returns '?'
GetoptMemload ==
    /\ setup_pc = "getopt"
    /\ argv # <<>>
    /\ Head(argv).opt = "l"
    /\ argv' = Tail(argv)
    /\ IF tool = "multichase"
       THEN /\ setup_pc' = "usage"
            /\ UNCHANGED run_test_type
       ELSE /\ setup_pc' = "getopt"
            /\ run_test_type' = IF run_test_type # "RUN_CHASE_LOADED"
                                THEN "RUN_BANDWIDTH" ELSE run_test_type
    /\ UNCHANGED <<tool, cmdline, requested, genchase_args, setup_nr_threads, chase,
                   mixer_built, arena_allocated, thread_type, passed, besidesSetup>>

\* getopt returns -1
GetoptEnd ==
    /\ setup_pc = "getopt"
    /\ argv = <<>>
    /\ setup_pc' = "normalise"
    /\ UNCHANGED <<tool, cmdline, argv, requested, genchase_args, setup_nr_threads,
                   run_test_type, chase, mixer_built, arena_allocated, thread_type,
                   passed, besidesSetup>>

\* the tlb_locality without the rounding to a multiple of stride
normalised_tlb_locality_unrounded(stride, tlb_locality) ==
    IF tlb_locality < stride THEN stride ELSE tlb_locality

\* the tlb_locality main computes first
normalised_tlb_locality(stride, tlb_locality) ==
    IF tlb_locality < stride THEN stride
    ELSE tlb_locality - (tlb_locality % stride)

\* "ensure some sanity in the various arguments"
normalise(a) ==
    LET tlb == normalised_tlb_locality(a.stride, a.tlb_locality)
        total == IF a.total_memory < tlb
                 THEN IF a.total_memory < a.stride THEN a.stride
                      ELSE a.total_memory - (a.total_memory % a.stride)
                 ELSE a.total_memory - (a.total_memory % tlb)
    IN [a EXCEPT !.tlb_locality = IF a.total_memory < tlb THEN total ELSE tlb,
                 !.total_memory = total]

\* if (genchase_args.stride < sizeof(void *)) exit(1), then the normalisation
Normalise ==
    /\ setup_pc = "normalise"
    /\ IF genchase_args.stride < PtrSize
       THEN /\ setup_pc' = "exit1"
            /\ UNCHANGED genchase_args
       ELSE /\ setup_pc' = "check"
            /\ genchase_args' = normalise(genchase_args)
    /\ UNCHANGED <<tool, cmdline, argv, requested, setup_nr_threads, run_test_type,
                   chase, mixer_built, arena_allocated, thread_type, passed,
                   besidesSetup>>

\* whether main tests nr_mixer_indices: always in multichase, in multiload
\* only if (run_test_type == RUN_CHASE)
ChecksIndices(which, type) == which = "multichase" \/ type = "RUN_CHASE"

\* nr_mixer_indices = stride / base_object_size and its test
CheckIndices ==
    /\ setup_pc = "check"
    /\ LET n == genchase_args.stride \div chases(tool)[chase].base_object_size
       IN /\ genchase_args' = [genchase_args EXCEPT !.nr_mixer_indices = n]
          /\ setup_pc' = IF ChecksIndices(tool, run_test_type)
                            /\ n < setup_nr_threads * chases(tool)[chase].parallelism
                         THEN "exit1" ELSE "allocate"
    /\ UNCHANGED <<tool, cmdline, argv, requested, setup_nr_threads, run_test_type,
                   chase, mixer_built, arena_allocated, thread_type, passed,
                   besidesSetup>>

\* generate_chase_mixer and the allocation of the arena, which multiload
\* skips if (run_test_type == RUN_BANDWIDTH)
Allocate ==
    /\ setup_pc = "allocate"
    /\ setup_pc' = "create"
    /\ mixer_built' = (run_test_type # "RUN_BANDWIDTH")
    /\ arena_allocated' = (run_test_type # "RUN_BANDWIDTH")
    /\ UNCHANGED <<tool, cmdline, argv, requested, genchase_args, setup_nr_threads,
                   run_test_type, chase, thread_type, passed, besidesSetup>>

\* one trip of the pthread_create loop
CreateThread ==
    /\ setup_pc = "create"
    /\ LET i == Len(thread_type)
       IN IF i = setup_nr_threads
          THEN /\ setup_pc' = "wait"
               /\ UNCHANGED thread_type
          ELSE /\ setup_pc' = "create"
               /\ thread_type' =
                    Append(thread_type,
                           IF run_test_type = "RUN_CHASE_LOADED"
                           THEN IF i = 0 THEN "RUN_CHASE" ELSE "RUN_BANDWIDTH"
                           ELSE run_test_type)
    /\ UNCHANGED <<tool, cmdline, argv, requested, genchase_args, setup_nr_threads,
                   run_test_type, chase, mixer_built, arena_allocated, passed,
                   besidesSetup>>

\* thread_start of thread thread_num: the generate_chase calls of a chase
\* thread
ThreadGenerate(thread_num) ==
    /\ thread_num + 1 \in DOMAIN thread_type
    /\ thread_type[thread_num + 1] = "RUN_CHASE"
    /\ \A e \in passed : e[1] # thread_num
    /\ LET parallelism == chases(tool)[chase].parallelism
       IN passed' = passed \cup
            {<<thread_num, parallelism * thread_num + par>> :
                par \in 0 .. parallelism - 1}
    /\ UNCHANGED <<tool, cmdline, argv, requested, genchase_args, setup_nr_threads,
                   run_test_type, chase, setup_pc, mixer_built, arena_allocated,
                   thread_type, besidesSetup>>

SetupNext ==
    \/ GetoptChase
    \/ GetoptMemload
    \/ GetoptEnd
    \/ Normalise
    \/ CheckIndices
    \/ Allocate
    \/ CreateThread
    \/ \E thread_num \in 0 .. MaxSetupThreads - 1 : ThreadGenerate(thread_num)

(***************************************************************************)
(* The number of mixers generate_chase_mixer stores, in permutation.c and  *)
(* in the variant with a floor of 64 (unnamed/part_001).  main's           *)
(* genchase_args is an automatic variable whose nr_mixers nothing assigns  *)
(* before the call, so its value on entry is indeterminate.  The table is  *)
(* filled by the ordered generator (-o).                                   *)
(***************************************************************************)
\* if (args->nr_mixers < 64) args->nr_mixers = 64
MixersFloor == 64

\* generate_chase_mixer(args, nr_mixers) of unnamed/part_001
generate_chase_mixer_floor(a, nr_mixers, lz0, draws) ==
    LET rounded == IF nr_mixers > 1 THEN Pow2(64 - clzl(nr_mixers - 1, lz0))
                   ELSE a.nr_mixers
        floored == IF rounded < MixersFloor THEN MixersFloor ELSE rounded
    IN [a EXCEPT !.nr_mixers = floored,
                 !.mixer = mixer_table(a.ordered, floored, a.nr_mixer_indices, draws)]

\* the draws of an ordered fill of n mixers
OrderedDraws(n, nr_mixer_indices) ==
    [i \in 0 .. n - 1 |-> [j \in 0 .. nr_mixer_indices - 1 |-> 0]]

MixersIdle ==
    /\ mx_variant = "none"
    /\ mx_requested = 0
    /\ mx_args = <<>>
    /\ mx_pc = "idle"

\* main before generate_chase_mixer(&genchase_args, nr_threads * parallelism)
MixersInit ==
    /\ mx_variant \in {"permutation.c", "part_001"}
    /\ mx_requested \in 1 .. MaxMixers
    /\ \E incoming \in 0 .. MaxIncoming, nr_mixer_indices \in 1 .. MaxMixerIndices :
        mx_args = [nr_mixers |-> incoming, nr_mixer_indices |-> nr_mixer_indices,
                   ordered |-> TRUE, mixer |-> <<>>]
    /\ mx_pc = "call"

\* generate_chase_mixer of permutation.c
GenerateMixer ==
    /\ mx_pc = "call"
    /\ mx_variant = "permutation.c"
    /\ \E lz0 \in ClzlOfZero :
        LET n == Pow2(64 - clzl(mx_requested - 1, lz0))
        IN mx_args' = generate_chase_mixer(mx_args, mx_requested, lz0,
                                           OrderedDraws(n, mx_args.nr_mixer_indices))
    /\ mx_pc' = "returned"
    /\ UNCHANGED <<mx_variant, mx_requested, besidesMixers>>

\* generate_chase_mixer of unnamed/part_001
GenerateMixerFloor ==
    /\ mx_pc = "call"
    /\ mx_variant = "part_001"
    /\ \E lz0 \in ClzlOfZero :
        mx_args' = generate_chase_mixer_floor(
                        mx_args, mx_requested, lz0,
                        OrderedDraws(MixersFloor + MaxIncoming + Pow2(BitLen(MaxMixers)),
                                     mx_args.nr_mixer_indices))
    /\ mx_pc' = "returned"
    /\ UNCHANGED <<mx_variant, mx_requested, besidesMixers>>

MixersNext == GenerateMixer \/ GenerateMixerFloor

(***************************************************************************)
(* rng_int (permutation.h): the header that reduces a 64-bit value modulo  *)
(* limit + 1, and the older header that scales limit + 1 by r / RAND_MAX.  *)
(* Widths are reduced: random_r yields RandBits bits (31 in the source),   *)
(* the modulo variant keeps PieceBits bits of each of its four draws (16), *)
(* its perm_t is size_t and as wide as r (64), and the perm_t of the older *)
(* header is uint32_t, one bit wider than RAND_MAX.                        *)
(***************************************************************************)
RAND_MAX == Pow2(RandBits) - 1

\* number of values of uint64_t r and of perm_t = size_t
Word64Mod == Pow2(4 * PieceBits)

\* number of values of perm_t = uint32_t
Word32Mod == Pow2(RandBits + 1)

PermMod(variant) == IF variant = "modulo" THEN Word64Mod ELSE Word32Mod

\* the return value of a call that ended in SIGFPE instead of returning
Trapped == 0 - 2

\* r as assembled from the four draws
rng_r(raw) ==
    (raw[1] % Pow2(PieceBits))
    + (raw[2] % Pow2(PieceBits)) * Pow2(PieceBits)
    + (raw[3] % Pow2(PieceBits)) * Pow2(2 * PieceBits)
    + (raw[4] % Pow2(PieceBits)) * Pow2(3 * PieceBits)

\* r % (limit + 1) with limit + 1 computed in perm_t; a zero divisor traps on
\* x86_64, and leaves r on aarch64 (udiv yields 0, msub restores r)
rng_int(limit, raw, arch) ==
    LET r == rng_r(raw)
        modulus == (limit + 1) % Word64Mod
    IN IF DivTraps(arch, modulus) THEN Trapped
       ELSE r - IntDiv(r, modulus) * modulus

\* (limit + 1) * (r * 1.0 / RAND_MAX) converted to perm_t: limit + 1 is
\* computed in perm_t, the product in double, the conversion truncates
rng_int_scaled(limit, r) ==
    LET scale == (limit + 1) % Word32Mod
    IN (scale * r) \div RAND_MAX

\* the limits tried: the small ones and the largest perm_t
RngLimits(variant) == (0 .. MaxLimit) \cup {PermMod(variant) - 1}

RngIdle ==
    /\ rng_variant = "none"
    /\ rng_limit = 0
    /\ rng_raw = <<>>
    /\ rng_ret = NotCalled

RngInit ==
    /\ rng_variant \in {"modulo", "scaled"}
    /\ rng_limit \in RngLimits(rng_variant)
    /\ rng_raw \in [1 .. (IF rng_variant = "modulo" THEN 4 ELSE 1) -> 0 .. RAND_MAX]
    /\ rng_ret = NotCalled

RngModulo ==
    /\ rng_variant = "modulo"
    /\ rng_ret = NotCalled
    /\ \E arch \in {"x86_64", "aarch64"} : rng_ret' = rng_int(rng_limit, rng_raw, arch)
    /\ UNCHANGED <<rng_variant, rng_limit, rng_raw, besidesRng>>

RngScaled ==
    /\ rng_variant = "scaled"
    /\ rng_ret = NotCalled
    /\ rng_ret' = rng_int_scaled(rng_limit, rng_raw[1])
    /\ UNCHANGED <<rng_variant, rng_limit, rng_raw, besidesRng>>

RngNext == RngModulo \/ RngScaled

(***************************************************************************)
(* is_a_permutation on arbitrary arrays: every array of up to MaxFullNr    *)
(* values, and for longer ones every rotation of the identity with one     *)
(* element overwritten.                                                    *)
(***************************************************************************)
CheckArrays(nr) ==
    (IF nr <= MaxFullNr THEN [0 .. nr - 1 -> 0 .. MaxValue] ELSE {})
    \cup {[i \in 0 .. nr - 1 |-> IF i = at THEN v ELSE (i + k) % nr] :
            at \in 0 .. nr - 1, k \in 0 .. nr - 1, v \in 0 .. MaxValue}

IsPermIdle ==
    /\ isp_nr = 0
    /\ isp_p = <<>>
    /\ isp_ret = NotCalled
    /\ isp_oob = FALSE

IsPermInit ==
    /\ isp_nr \in 1 .. MaxCheckNr
    /\ isp_p \in CheckArrays(isp_nr)
    /\ isp_ret = NotCalled
    /\ isp_oob = FALSE

\* ret = is_a_permutation(p, nr_elts) while every vec[vec_elt] is inside vec
CheckInBounds ==
    /\ isp_ret = NotCalled
    /\ ~is_a_permutation_oob(isp_p, isp_nr)
    /\ isp_ret' = is_a_permutation(isp_p, isp_nr)
    /\ UNCHANGED <<isp_nr, isp_p, isp_oob, besidesIsPerm>>

\* ret = is_a_permutation(p, nr_elts) when some p[i] / 8 is no index of vec:
\* the access is undefined behaviour and may yield either answer
CheckOutOfBounds ==
    /\ isp_ret = NotCalled
    /\ is_a_permutation_oob(isp_p, isp_nr)
    /\ isp_ret' \in {0, 1}
    /\ isp_oob' = TRUE
    /\ UNCHANGED <<isp_nr, isp_p, besidesIsPerm>>

IsPermNext == CheckInBounds \/ CheckOutOfBounds

(***************************************************************************)
(* generate_chase_long (permutation.c), which threads by position, and its *)
(* variant that threads by element through the inverse permutation: one    *)
(* call on a fresh arena, after generate_chase_mixer.                      *)
(***************************************************************************)
nr_iteration_of(a, total_par) == a.nr_mixer_indices \div total_par

\* MIXED_2(x, i), with mixer = args->mixer + mixer_idx * nr_iteration * nr_mixers
MIXED_2(a, mixer_idx, total_par, x, i) ==
    x * a.stride
    + a.mixer[(mixer_idx * nr_iteration_of(a, total_par) + i) * a.nr_mixers
              + BitAnd(x, a.nr_mixers - 1)]
      * (a.stride \div a.nr_mixer_indices)

\* the loop over the TLB groups of permutation j
RECURSIVE long_group_loop(_, _, _, _, _, _)
long_group_loop(a, tlb_perm, perm, d, j, i) ==
    IF i >= nr_tlb_groups_of(a) THEN perm
    ELSE long_group_loop(a, tlb_perm,
                         gen_permutation(a.ordered, perm,
                                         j * nr_elts_of(a) + i * nr_elts_per_tlb_of(a),
                                         nr_elts_per_tlb_of(a),
                                         j * nr_elts_of(a)
                                         + tlb_perm[i] * nr_elts_per_tlb_of(a),
                                         d[j].grp[i]),
                         d, j, i + 1)

\* the loop that generates nr_iteration permutations
RECURSIVE long_perm_loop(_, _, _, _, _)
long_perm_loop(a, nr_iteration, perm, d, j) ==
    IF j >= nr_iteration THEN perm
    ELSE LET tlb_perm == gen_permutation(a.ordered,
                                         [g \in 0 .. nr_tlb_groups_of(a) - 1 |-> Uninit],
                                         0, nr_tlb_groups_of(a), 0, d[j].tlb)
         IN long_perm_loop(a, nr_iteration,
                           long_group_loop(a, tlb_perm, perm, d, j, 0), d, j + 1)

long_perm(a, total_par, d) ==
    long_perm_loop(a, nr_iteration_of(a, total_par),
                   [k \in 0 .. nr_iteration_of(a, total_par) * nr_elts_of(a) - 1 |-> Uninit],
                   d, 0)

\* the threading loop with i_next = i throughout: no link leaves its pass
RECURSIVE long_thread_loop_samepass(_, _, _, _, _, _)
long_thread_loop_samepass(a, mixer_idx, total_par, perm, st, cur) ==
    LET n == nr_elts_of(a)
        total == nr_iteration_of(a, total_par) * n
    IN IF cur >= total THEN st
       ELSE LET i == cur \div n
                next == IF cur + 1 = total THEN 0 ELSE cur + 1
                cell == a.arena + MIXED_2(a, mixer_idx, total_par, perm[cur] % n, i)
            IN long_thread_loop_samepass(a, mixer_idx, total_par, perm,
                    [mem |-> StorePtr(st.mem, cell,
                                      a.arena + MIXED_2(a, mixer_idx, total_par,
                                                        perm[next] % n, i)),
                     stores |-> Append(st.stores, cell)],
                    cur + 1)

\* the threading loops over i and j (permutation.c:239-248), cur = i * nr_elts + j
RECURSIVE long_thread_loop(_, _, _, _, _, _)
long_thread_loop(a, mixer_idx, total_par, perm, st, cur) ==
    LET n == nr_elts_of(a)
        total == nr_iteration_of(a, total_par) * n
    IN IF cur >= total THEN st
       ELSE LET i == cur \div n
                j == cur % n
                next == IF cur + 1 = total THEN 0 ELSE cur + 1
                i_next == IF j + 1 = n THEN (IF next = 0 THEN 0 ELSE i + 1) ELSE i
                cell == a.arena + MIXED_2(a, mixer_idx, total_par, perm[cur] % n, i)
            IN long_thread_loop(a, mixer_idx, total_par, perm,
                    [mem |-> StorePtr(st.mem, cell,
                                      a.arena + MIXED_2(a, mixer_idx, total_par,
                                                        perm[next] % n, i_next)),
                     stores |-> Append(st.stores, cell)],
                    cur + 1)

\* generate_chase_long(args, mixer_idx, total_par) with the draws d
generate_chase_long(a, m, mixer_idx, total_par, d) ==
    LET perm == long_perm(a, total_par, d)
        st == long_thread_loop(a, mixer_idx, total_par, perm,
                               [mem |-> m, stores |-> <<>>], 0)
    IN [mem |-> st.mem, stores |-> st.stores, perm |-> perm,
        head |-> a.arena + MIXED_2(a, mixer_idx, total_par, 0, 0)]

\* the threading loop of the variant with the inverse permutation: cell i
\* receives the element that follows i in its own permutation, or element 0
\* of the next permutation where its own permutation would come back to 0
RECURSIVE long_thread_loop_inverse(_, _, _, _, _, _, _)
long_thread_loop_inverse(a, mixer_idx, total_par, perm, perm_inverse, st, i) ==
    LET n == nr_elts_of(a)
        total == nr_iteration_of(a, total_par) * n
    IN IF i >= total THEN st
       ELSE LET cell == a.arena + MIXED_2(a, mixer_idx, total_par, i % n, i \div n)
                fired == LoadPtr(st.mem, a.offset + a.total_memory, cell) # 0
                next1 == perm_inverse[i] + 1
                next == IF next1 % n = 0 /\ next1 \div n > i \div n
                        THEN (i \div n) * n ELSE next1
                new1 == (i \div n + 1) * n
                new == IF new1 = total THEN 0 ELSE new1
                target == IF perm[next] % n = 0
                          THEN MIXED_2(a, mixer_idx, total_par, new % n, new \div n)
                          ELSE MIXED_2(a, mixer_idx, total_par,
                                       perm[next] % n, perm[next] \div n)
            IN long_thread_loop_inverse(a, mixer_idx, total_par, perm, perm_inverse,
                    [mem |-> StorePtr(st.mem, cell, a.arena + target),
                     stores |-> Append(st.stores, cell),
                     fired |-> st.fired \/ fired],
                    i + 1)

\* generate_chase_long(args, mixer_idx, total_par) of that variant
generate_chase_long_inverse(a, m, mixer_idx, total_par, d) ==
    LET perm == long_perm(a, total_par, d)
        total == nr_iteration_of(a, total_par) * nr_elts_of(a)
        perm_inverse == inverse_loop(perm, total, [k \in 0 .. total - 1 |-> Uninit], 0)
        st == long_thread_loop_inverse(a, mixer_idx, total_par, perm, perm_inverse,
                                       [mem |-> m, stores |-> <<>>, fired |-> FALSE], 0)
    IN [mem |-> st.mem, stores |-> st.stores, perm |-> perm, fired |-> st.fired,
        head |-> a.arena + MIXED_2(a, mixer_idx, total_par, 0, 0)]

\* the draws of one call: those of generate_chase for every permutation
LongDraws(a, total_par) == [0 .. nr_iteration_of(a, total_par) - 1 -> ChaseDraws(a)]

\* total_par of the modelled calls
LongPars == {1, 2}

\* args->nr_mixers after generate_chase_mixer(args, total_par): rounded up to
\* a power of two by permutation.c; the variant with the floor stores at least
\* MixersFloor and for total_par = 1 keeps what the field held
LongMixers(variant, total_par) ==
    IF variant = "forward"
    THEN {Pow2(64 - clzl(total_par - 1, lz0)) : lz0 \in ClzlOfZero}
    ELSE IF total_par = 1 THEN {MixersFloor, MixersFloor + 1} ELSE {MixersFloor}

\* the draws of the mixer that are tried: the even slots draw f, the odd
\* slots draw 0 every time
LongMixerDraws(ordered, nr_mixers, nr_mixer_indices) ==
    {[i \in 0 .. nr_mixers - 1 |->
         IF i % 2 = 0 THEN f ELSE [j \in 0 .. nr_mixer_indices - 1 |-> 0]] :
        f \in DrawsFor(ordered, nr_mixer_indices)}

LongLayouts == {l \in (1 .. MaxElts) \X (1 .. MaxElts) : l[1] * l[2] <= MaxElts}

LongIdle ==
    /\ lg_variant = "none"
    /\ lg_args = <<>>
    /\ lg_total_par = 0
    /\ lg_mixer_idx = 0
    /\ lg_mem = <<>>
    /\ lg_head = 0
    /\ lg_perm = <<>>
    /\ lg_stores = <<>>
    /\ lg_assert = FALSE

\* the arena is fresh, the mixer is built, nr_iteration >= 1
LongInit ==
    \E indices \in 1 .. MaxLongIndices, lay \in LongLayouts, offset \in Offsets,
       ordered \in BOOLEAN :
        /\ lg_variant \in {"forward", "inverse"}
        /\ lg_total_par \in LongPars
        /\ lg_total_par <= indices
        /\ (indices \div lg_total_par) * lay[1] * lay[2] <= MaxLongCells
        /\ lg_mixer_idx \in 0 .. lg_total_par - 1
        /\ \E nr_mixers \in LongMixers(lg_variant, lg_total_par) :
           \E draws \in LongMixerDraws(ordered, nr_mixers, indices) :
            lg_args = [arena |-> RegionBase + offset,
                       total_memory |-> PtrSize * indices * lay[1] * lay[2],
                       stride |-> PtrSize * indices,
                       tlb_locality |-> PtrSize * indices * lay[1],
                       nr_mixers |-> nr_mixers,
                       ordered |-> ordered,
                       nr_mixer_indices |-> indices,
                       mixer |-> mixer_table(ordered, nr_mixers, indices, draws),
                       offset |-> offset]
        /\ lg_mem = <<>>
        /\ lg_head = 0
        /\ lg_perm = <<>>
        /\ lg_stores = <<>>
        /\ lg_assert = FALSE

\* cycle = generate_chase_long(&genchase_args, mixer_idx, total_par)
GenerateLong ==
    /\ lg_variant = "forward"
    /\ lg_head = 0
    /\ \E d \in LongDraws(lg_args, lg_total_par) :
       \E g \in {generate_chase_long(lg_args, lg_mem, lg_mixer_idx, lg_total_par, d)} :
        /\ lg_mem' = g.mem
        /\ lg_head' = g.head
        /\ lg_perm' = g.perm
        /\ lg_stores' = g.stores
    /\ UNCHANGED <<lg_variant, lg_args, lg_total_par, lg_mixer_idx, lg_assert,
                   besidesLong>>

GenerateLongInverse ==
    /\ lg_variant = "inverse"
    /\ lg_head = 0
    /\ \E d \in LongDraws(lg_args, lg_total_par) :
       \E g \in {generate_chase_long_inverse(lg_args, lg_mem, lg_mixer_idx,
                                             lg_total_par, d)} :
        /\ lg_mem' = g.mem
        /\ lg_head' = g.head
        /\ lg_perm' = g.perm
        /\ lg_stores' = g.stores
        /\ lg_assert' = g.fired
    /\ UNCHANGED <<lg_variant, lg_args, lg_total_par, lg_mixer_idx, besidesLong>>

LongNext == GenerateLong \/ GenerateLongInverse

(***************************************************************************)
(* The critword chase: thread_start builds the chase and then plants a     *)
(* second pointer at offset N of every element.                            *)
(***************************************************************************)
\* .base_object_size of the critword entry
CritwordObject == 64

\* the strides and the N tried
CritwordStrides == {64, 128, 136}
CritwordOffsets == {8, 12, 32, 56}

\* the rewrite without the store *(void **)p = p + offset
RECURSIVE critword_loop_unlinked(_, _, _, _, _, _)
critword_loop_unlinked(m, size, p, q, offset, fuel) ==
    LET next == LoadPtr(m, size, p)
        m1 == StorePtr(m, p + offset, next)
    IN IF next = Wild THEN [how |-> "fault", mem |-> m]
       ELSE IF next = q THEN [how |-> "rewritten", mem |-> m1]
       ELSE IF fuel = 0 THEN [how |-> "hung", mem |-> m1]
       ELSE critword_loop_unlinked(m1, size, next, q, offset, fuel - 1)

\* do { next = *p; *(p + offset) = next; *p = p + offset; p = next; }
\* while (p != q), given up as "hung" after fuel further trips
RECURSIVE critword_loop(_, _, _, _, _, _)
critword_loop(m, size, p, q, offset, fuel) ==
    LET next == LoadPtr(m, size, p)
        m1 == StorePtr(StorePtr(m, p + offset, next), p, p + offset)
    IN IF next = Wild THEN [how |-> "fault", mem |-> m]
       ELSE IF next = q THEN [how |-> "rewritten", mem |-> m1]
       ELSE IF fuel = 0 THEN [how |-> "hung", mem |-> m1]
       ELSE critword_loop(m1, size, next, q, offset, fuel - 1)

CritwordSize == cw_args.offset + cw_args.total_memory

CritwordIdle ==
    /\ cw_args = <<>>
    /\ cw_offset = 0
    /\ cw_mem = <<>>
    /\ cw_cycle = <<>>
    /\ cw_order = <<>>
    /\ cw_pc = <<>>

\* main has passed the check of nr_mixer_indices against nr_threads, built
\* the mixer and allocated the zeroed arena
CritwordInit ==
    \E stride \in CritwordStrides, n \in 1 .. MaxCritElts, ordered \in BOOLEAN,
       threads \in 1 .. MaxCritThreads, lz0 \in ClzlOfZero :
        /\ stride \div CritwordObject >= threads
        /\ \E draws \in [0 .. Pow2(64 - clzl(threads - 1, lz0)) - 1
                            -> DrawsFor(ordered, stride \div CritwordObject)] :
            cw_args = generate_chase_mixer(
                        [arena |-> RegionBase, total_memory |-> stride * n,
                         stride |-> stride, tlb_locality |-> stride * n,
                         nr_mixers |-> 0, ordered |-> ordered,
                         nr_mixer_indices |-> stride \div CritwordObject,
                         mixer |-> <<>>, offset |-> 0],
                        threads, lz0, draws)
        /\ cw_offset \in CritwordOffsets
        /\ cw_mem = <<>>
        /\ cw_cycle = [t \in 0 .. threads - 1 |-> 0]
        /\ cw_order = [t \in 0 .. threads - 1 |-> <<>>]
        /\ cw_pc = [t \in 0 .. threads - 1 |-> "start"]

\* thread_start: cycle[0] = generate_chase(genchase_args, thread_num)
CritwordBuild(t) ==
    /\ cw_pc[t] = "start"
    /\ \E d \in ChaseDraws(cw_args) :
       \E g \in {generate_chase(cw_args, cw_mem, t, d)} :
        /\ cw_mem' = g.mem
        /\ cw_cycle' = [cw_cycle EXCEPT ![t] = g.head]
        /\ cw_order' = [cw_order EXCEPT ![t] =
                            follow(g.mem, CritwordSize, g.head, g.head, <<>>,
                                   nr_elts_of(cw_args)).cells]
    /\ cw_pc' = [cw_pc EXCEPT ![t] = "built"]
    /\ UNCHANGED <<cw_args, cw_offset, besidesCritword>>

\* thread_start: the loop under "handle critword chases"
CritwordRewrite(t) ==
    /\ cw_pc[t] = "built"
    /\ \E r \in {critword_loop(cw_mem, CritwordSize, cw_cycle[t], cw_cycle[t],
                               cw_offset, nr_elts_of(cw_args))} :
        /\ cw_mem' = r.mem
        /\ cw_pc' = [cw_pc EXCEPT ![t] = r.how]
    /\ UNCHANGED <<cw_args, cw_offset, cw_cycle, cw_order, besidesCritword>>

CritwordNext ==
    \/ \E t \in DOMAIN cw_pc : CritwordBuild(t)
    \/ \E t \in DOMAIN cw_pc : CritwordRewrite(t)

(***************************************************************************)
(* case 'c' of main's getopt loop: the lookup of the chase name in         *)
(* chases[].  Strings are sequences of characters ended by NUL.            *)
(***************************************************************************)
NUL == ""

\* s[i - 1] of the C string s
CharAt(s, i) == IF i <= Len(s) THEN s[i] ELSE NUL

\* the name and requires_arg of every entry of chases[], in order
chases_x86_64 ==
    <<[name |-> <<"s", "i", "m", "p", "l", "e">>, requires_arg |-> 0],
       [name |-> <<"w", "o", "r", "k">>, requires_arg |-> 1],
       [name |-> <<"i", "n", "c", "r">>, requires_arg |-> 0],
       [name |-> <<"t", "0">>, requires_arg |-> 0],
       [name |-> <<"t", "1">>, requires_arg |-> 0],
       [name |-> <<"t", "2">>, requires_arg |-> 0],
       [name |-> <<"n", "t", "a">>, requires_arg |-> 0],
       [name |-> <<"m", "o", "v", "d", "q", "a">>, requires_arg |-> 0],
       [name |-> <<"m", "o", "v", "n", "t", "d", "q", "a">>, requires_arg |-> 0],
       [name |-> <<"p", "a", "r", "a", "l", "l", "e", "l", "2">>, requires_arg |-> 0],
       [name |-> <<"p", "a", "r", "a", "l", "l", "e", "l", "3">>, requires_arg |-> 0],
       [name |-> <<"p", "a", "r", "a", "l", "l", "e", "l", "4">>, requires_arg |-> 0],
       [name |-> <<"p", "a", "r", "a", "l", "l", "e", "l", "5">>, requires_arg |-> 0],
       [name |-> <<"p", "a", "r", "a", "l", "l", "e", "l", "6">>, requires_arg |-> 0],
       [name |-> <<"p", "a", "r", "a", "l", "l", "e", "l", "7">>, requires_arg |-> 0],
       [name |-> <<"p", "a", "r", "a", "l", "l", "e", "l", "8">>, requires_arg |-> 0],
       [name |-> <<"p", "a", "r", "a", "l", "l", "e", "l", "9">>, requires_arg |-> 0],
       [name |-> <<"p", "a", "r", "a", "l", "l", "e", "l", "1", "0">>, requires_arg |-> 0],
       [name |-> <<"c", "r", "i", "t", "w", "o", "r", "d", "2">>, requires_arg |-> 1],
       [name |-> <<"c", "r", "i", "t", "w", "o", "r", "d">>, requires_arg |-> 1]>>

chases_other ==
    <<[name |-> <<"s", "i", "m", "p", "l", "e">>, requires_arg |-> 0],
       [name |-> <<"w", "o", "r", "k">>, requires_arg |-> 1],
       [name |-> <<"i", "n", "c", "r">>, requires_arg |-> 0],
       [name |-> <<"p", "a", "r", "a", "l", "l", "e", "l", "2">>, requires_arg |-> 0],
       [name |-> <<"p", "a", "r", "a", "l", "l", "e", "l", "3">>, requires_arg |-> 0],
       [name |-> <<"p", "a", "r", "a", "l", "l", "e", "l", "4">>, requires_arg |-> 0],
       [name |-> <<"p", "a", "r", "a", "l", "l", "e", "l", "5">>, requires_arg |-> 0],
       [name |-> <<"p", "a", "r", "a", "l", "l", "e", "l", "6">>, requires_arg |-> 0],
       [name |-> <<"p", "a", "r", "a", "l", "l", "e", "l", "7">>, requires_arg |-> 0],
       [name |-> <<"p", "a", "r", "a", "l", "l", "e", "l", "8">>, requires_arg |-> 0],
       [name |-> <<"p", "a", "r", "a", "l", "l", "e", "l", "9">>, requires_arg |-> 0],
       [name |-> <<"p", "a", "r", "a", "l", "l", "e", "l", "1", "0">>, requires_arg |-> 0],
       [name |-> <<"c", "r", "i", "t", "w", "o", "r", "d">>, requires_arg |-> 1]>>

load_chases_x86_64 ==
    <<[name |-> <<"s", "i", "m", "p", "l", "e", " ", " ", " ", " ">>, requires_arg |-> 0],
       [name |-> <<"c", "h", "a", "s", "e", "l", "o", "a", "d">>, requires_arg |-> 0],
       [name |-> <<"w", "o", "r", "k", " ", " ", " ", " ", " ">>, requires_arg |-> 1],
       [name |-> <<"i", "n", "c", "r", " ", " ", " ", " ", " ">>, requires_arg |-> 0],
       [name |-> <<"t", "0">>, requires_arg |-> 0],
       [name |-> <<"t", "1">>, requires_arg |-> 0],
       [name |-> <<"t", "2">>, requires_arg |-> 0],
       [name |-> <<"n", "t", "a">>, requires_arg |-> 0],
       [name |-> <<"m", "o", "v", "d", "q", "a">>, requires_arg |-> 0],
       [name |-> <<"m", "o", "v", "n", "t", "d", "q", "a">>, requires_arg |-> 0],
       [name |-> <<"p", "a", "r", "a", "l", "l", "e", "l", "2">>, requires_arg |-> 0],
       [name |-> <<"p", "a", "r", "a", "l", "l", "e", "l", "3">>, requires_arg |-> 0],
       [name |-> <<"p", "a", "r", "a", "l", "l", "e", "l", "4">>, requires_arg |-> 0],
       [name |-> <<"p", "a", "r", "a", "l", "l", "e", "l", "5">>, requires_arg |-> 0],
       [name |-> <<"p", "a", "r", "a", "l", "l", "e", "l", "6">>, requires_arg |-> 0],
       [name |-> <<"p", "a", "r", "a", "l", "l", "e", "l", "7">>, requires_arg |-> 0],
       [name |-> <<"p", "a", "r", "a", "l", "l", "e", "l", "8">>, requires_arg |-> 0],
       [name |-> <<"p", "a", "r", "a", "l", "l", "e", "l", "9">>, requires_arg |-> 0],
       [name |-> <<"p", "a", "r", "a", "l", "l", "e", "l", "1", "0">>, requires_arg |-> 0],
       [name |-> <<"c", "r", "i", "t", "w", "o", "r", "d", "2">>, requires_arg |-> 1],
       [name |-> <<"c", "r", "i", "t", "w", "o", "r", "d">>, requires_arg |-> 1]>>

load_chases_other ==
    <<[name |-> <<"s", "i", "m", "p", "l", "e", " ", " ", " ", " ">>, requires_arg |-> 0],
       [name |-> <<"c", "h", "a", "s", "e", "l", "o", "a", "d">>, requires_arg |-> 0],
       [name |-> <<"w", "o", "r", "k", " ", " ", " ", " ", " ">>, requires_arg |-> 1],
       [name |-> <<"i", "n", "c", "r", " ", " ", " ", " ", " ">>, requires_arg |-> 0],
       [name |-> <<"p", "a", "r", "a", "l", "l", "e", "l", "2">>, requires_arg |-> 0],
       [name |-> <<"p", "a", "r", "a", "l", "l", "e", "l", "3">>, requires_arg |-> 0],
       [name |-> <<"p", "a", "r", "a", "l", "l", "e", "l", "4">>, requires_arg |-> 0],
       [name |-> <<"p", "a", "r", "a", "l", "l", "e", "l", "5">>, requires_arg |-> 0],
       [name |-> <<"p", "a", "r", "a", "l", "l", "e", "l", "6">>, requires_arg |-> 0],
       [name |-> <<"p", "a", "r", "a", "l", "l", "e", "l", "7">>, requires_arg |-> 0],
       [name |-> <<"p", "a", "r", "a", "l", "l", "e", "l", "8">>, requires_arg |-> 0],
       [name |-> <<"p", "a", "r", "a", "l", "l", "e", "l", "9">>, requires_arg |-> 0],
       [name |-> <<"p", "a", "r", "a", "l", "l", "e", "l", "1", "0">>, requires_arg |-> 0],
       [name |-> <<"c", "r", "i", "t", "w", "o", "r", "d">>, requires_arg |-> 1]>>

chases_of(which, arch) ==
    IF which = "multichase"
    THEN (IF arch = "x86_64" THEN chases_x86_64 ELSE chases_other)
    ELSE (IF arch = "x86_64" THEN load_chases_x86_64 ELSE load_chases_other)

\* the arguments of -c tried
ChaseOptargs ==
    {<<"s", "i", "m", "p", "l", "e">>,
     <<"s", "i", "m", "p", "l", "e", ":">>,
     <<"s", "i", "m", "p", "l", "e", ":", "8">>,
     <<"c", "h", "a", "s", "e", "l", "o", "a", "d">>,
     <<"c", "h", "a", "s", "e", "l", "o", "a", "d", ":">>,
     <<"c", "h", "a", "s", "e", "l", "o", "a", "d", ":", "8">>,
     <<"w", "o", "r", "k">>,
     <<"w", "o", "r", "k", ":">>,
     <<"w", "o", "r", "k", ":", "8">>,
     <<"i", "n", "c", "r">>,
     <<"i", "n", "c", "r", ":">>,
     <<"i", "n", "c", "r", ":", "8">>,
     <<"t", "0">>,
     <<"t", "0", ":">>,
     <<"t", "0", ":", "8">>,
     <<"n", "t", "a">>,
     <<"n", "t", "a", ":">>,
     <<"n", "t", "a", ":", "8">>,
     <<"m", "o", "v", "d", "q", "a">>,
     <<"m", "o", "v", "d", "q", "a", ":">>,
     <<"m", "o", "v", "d", "q", "a", ":", "8">>,
     <<"p", "a", "r", "a", "l", "l", "e", "l", "2">>,
     <<"p", "a", "r", "a", "l", "l", "e", "l", "2", ":">>,
     <<"p", "a", "r", "a", "l", "l", "e", "l", "2", ":", "8">>,
     <<"p", "a", "r", "a", "l", "l", "e", "l", "1", "0">>,
     <<"p", "a", "r", "a", "l", "l", "e", "l", "1", "0", ":">>,
     <<"p", "a", "r", "a", "l", "l", "e", "l", "1", "0", ":", "8">>,
     <<"c", "r", "i", "t", "w", "o", "r", "d", "2">>,
     <<"c", "r", "i", "t", "w", "o", "r", "d", "2", ":">>,
     <<"c", "r", "i", "t", "w", "o", "r", "d", "2", ":", "8">>,
     <<"c", "r", "i", "t", "w", "o", "r", "d">>,
     <<"c", "r", "i", "t", "w", "o", "r", "d", ":">>,
     <<"c", "r", "i", "t", "w", "o", "r", "d", ":", "8">>,
     <<>>,
     <<":">>,
     <<":", "8">>,
     <<"t">>,
     <<"t", ":">>,
     <<"t", ":", "8">>,
     <<"s">>,
     <<"s", ":">>,
     <<"s", ":", "8">>,
     <<"m", "o", "v">>,
     <<"m", "o", "v", ":">>,
     <<"m", "o", "v", ":", "8">>,
     <<"p", "a", "r", "a", "l", "l", "e", "l">>,
     <<"p", "a", "r", "a", "l", "l", "e", "l", ":">>,
     <<"p", "a", "r", "a", "l", "l", "e", "l", ":", "8">>,
     <<"p", "a", "r", "a", "l", "l", "e", "l", "1">>,
     <<"p", "a", "r", "a", "l", "l", "e", "l", "1", ":">>,
     <<"p", "a", "r", "a", "l", "l", "e", "l", "1", ":", "8">>,
     <<"c", "r", "i", "t", "w", "o", "r">>,
     <<"c", "r", "i", "t", "w", "o", "r", ":">>,
     <<"c", "r", "i", "t", "w", "o", "r", ":", "8">>,
     <<"n", "o", "s", "u", "c", "h">>,
     <<"n", "o", "s", "u", "c", "h", ":">>,
     <<"n", "o", "s", "u", "c", "h", ":", "8">>,
     <<"c", "r", "i", "t", "w", "o", "r", "d", "3">>,
     <<"c", "r", "i", "t", "w", "o", "r", "d", "3", ":">>,
     <<"c", "r", "i", "t", "w", "o", "r", "d", "3", ":", "8">>,
     <<"s", "i", "m", "p", "l", "e", " ", " ", " ", " ">>,
     <<"s", "i", "m", "p", "l", "e", " ", " ", " ", " ", ":">>,
     <<"s", "i", "m", "p", "l", "e", " ", " ", " ", " ", ":", "8">>,
     <<"s", "i", "m", "p", "l", "e", "x">>,
     <<"s", "i", "m", "p", "l", "e", "x", ":">>,
     <<"s", "i", "m", "p", "l", "e", "x", ":", "8">>}

\* strncmp(s1, s2, n), from character i on: 0, or 1 for any other value
RECURSIVE strncmp_from(_, _, _, _)
strncmp_from(s1, s2, n, i) ==
    IF i > n THEN 0
    ELSE IF CharAt(s1, i) # CharAt(s2, i) THEN 1
    ELSE IF CharAt(s1, i) = NUL THEN 0
    ELSE strncmp_from(s1, s2, n, i + 1)

strncmp(s1, s2, n) == strncmp_from(s1, s2, n, 1)

\* strchr(s, c) as the index of the character found, 0 for NULL
strchr(s, c) ==
    IF \E i \in 1 .. Len(s) : s[i] = c
    THEN CHOOSE i \in 1 .. Len(s) : s[i] = c /\ \A j \in 1 .. i - 1 : s[j] # c
    ELSE 0

\* for (i = 0; i < sizeof(chases)/sizeof(chases[0]); ++i)
\*     if (strncmp(optarg, chases[i].name, p - optarg) == 0) break;
\* as the index from 1, Len(table) + 1 when the loop runs out
RECURSIVE chase_lookup(_, _, _, _)
chase_lookup(table, optarg, n, i) ==
    IF i > Len(table) THEN i
    ELSE IF strncmp(optarg, table[i].name, n) = 0 THEN i
    ELSE chase_lookup(table, optarg, n, i + 1)

CoptTable == chases_of(copt_tool, copt_arch)

CoptIdle ==
    /\ copt_tool = ""
    /\ copt_arch = ""
    /\ copt_optarg = <<>>
    /\ copt_run_test_type = ""
    /\ copt_chase = 0
    /\ copt_extra_args = <<>>
    /\ copt_pc = "idle"

\* getopt has returned 'c'; chase is still &chases[0]
CoptInit ==
    /\ copt_tool \in {"multichase", "multiload"}
    /\ copt_arch \in {"x86_64", "aarch64"}
    /\ copt_optarg \in ChaseOptargs
    /\ copt_run_test_type \in
            IF copt_tool = "multiload" THEN {"RUN_CHASE", "RUN_BANDWIDTH"}
            ELSE {"RUN_CHASE"}
    /\ copt_chase = 1
    /\ copt_extra_args = <<>>
    /\ copt_pc = "getopt"

\* the position of the colon or of the end of optarg
ColonOf(optarg) ==
    IF strchr(optarg, ":") = 0 THEN Len(optarg) + 1 ELSE strchr(optarg, ":")

\* the check of requires_arg: the pc and extra_args it leaves
requires_arg_check(entry, optarg, p) ==
    IF entry.requires_arg = 1
    THEN (IF CharAt(optarg, p) # ":" \/ CharAt(optarg, p + 1) = NUL
          THEN [pc |-> "exit", extra_args |-> <<>>]
          ELSE [pc |-> "selected",
                extra_args |-> SubSeq(optarg, p + 1, Len(optarg))])
    ELSE (IF CharAt(optarg, p) # NUL
          THEN [pc |-> "exit", extra_args |-> <<>>]
          ELSE [pc |-> "selected", extra_args |-> <<>>])

\* multichase.c, case 'c'
CaseChase ==
    /\ copt_pc = "getopt"
    /\ copt_tool = "multichase"
    /\ LET p == ColonOf(copt_optarg)
           i == chase_lookup(CoptTable, copt_optarg, p - 1, 1)
       IN IF i = Len(CoptTable) + 1
          THEN /\ copt_pc' = "usage"
               /\ UNCHANGED <<copt_chase, copt_extra_args>>
          ELSE LET r == requires_arg_check(CoptTable[i], copt_optarg, p)
               IN /\ copt_chase' = i
                  /\ copt_pc' = r.pc
                  /\ copt_extra_args' = r.extra_args
    /\ UNCHANGED <<copt_tool, copt_arch, copt_optarg, copt_run_test_type,
                   besidesCopt>>

\* multiload.c, case 'c'
CaseChaseLoad ==
    /\ copt_pc = "getopt"
    /\ copt_tool = "multiload"
    /\ LET p == ColonOf(copt_optarg)
           i == chase_lookup(CoptTable, copt_optarg, p - 1, 1)
       IN IF i = Len(CoptTable) + 1
          THEN /\ copt_pc' = "usage"
               /\ UNCHANGED <<copt_chase, copt_extra_args, copt_run_test_type>>
          ELSE IF strncmp(<<"c", "h", "a", "s", "e", "l", "o", "a", "d">>,
                          CoptTable[i].name, 12) = 0
          THEN /\ copt_chase' = i
               /\ copt_run_test_type' = "RUN_CHASE_LOADED"
               /\ copt_pc' = "selected"
               /\ UNCHANGED copt_extra_args
          ELSE IF copt_run_test_type = "RUN_BANDWIDTH"
          THEN /\ copt_chase' = i
               /\ copt_pc' = "usage"
               /\ UNCHANGED <<copt_extra_args, copt_run_test_type>>
          ELSE LET r == requires_arg_check(CoptTable[i], copt_optarg, p)
               IN /\ copt_chase' = i
                  /\ copt_pc' = r.pc
                  /\ copt_extra_args' = r.extra_args
                  /\ UNCHANGED copt_run_test_type
    /\ UNCHANGED <<copt_tool, copt_arch, copt_optarg, besidesCopt>>

CoptNext == CaseChase \/ CaseChaseLoad

(***************************************************************************)
(* thread_start of multiload with its two kinds of workers                 *)
(* (multiload.c:650-758); main, which only waits at the barrier, is left   *)
(* out.                                                                    *)
(***************************************************************************)
\* main: thread_data[i].x.run_test_type
thread_type_of(test_type, i) ==
    IF test_type = "RUN_CHASE_LOADED"
    THEN (IF i = 0 THEN "RUN_CHASE" ELSE "RUN_BANDWIDTH")
    ELSE test_type

LoadIdle ==
    /\ ld_run_test_type = ""
    /\ ld_type = <<>>
    /\ ld_arena = <<>>
    /\ ld_pc = <<>>
    /\ ld_nr_to_startup = 0
    /\ ld_mutex = Free
    /\ ld_released = <<>>
    /\ ld_loops = <<>>

\* every worker created: load_arena = NULL, nr_to_startup = nr_threads
LoadInit ==
    \E n \in 1 .. MaxStartThreads :
        /\ ld_run_test_type \in {"RUN_CHASE", "RUN_BANDWIDTH", "RUN_CHASE_LOADED"}
        /\ ld_type = [t \in 0 .. n - 1 |-> thread_type_of(ld_run_test_type, t)]
        /\ ld_arena = [t \in 0 .. n - 1 |-> "NULL"]
        /\ ld_pc = [t \in 0 .. n - 1 |-> "start"]
        /\ ld_nr_to_startup = n
        /\ ld_mutex = Free
        /\ ld_released = [t \in 0 .. n - 1 |-> FALSE]
        /\ ld_loops = [t \in 0 .. n - 1 |-> 0]

\* thread_start with the memset of the load arena left out
LoadPrepareUntouched(t) ==
    /\ ld_pc[t] = "start"
    /\ ld_arena' = [ld_arena EXCEPT ![t] =
                        IF ld_type[t] = "RUN_CHASE" THEN "NULL" ELSE "mapped"]
    /\ ld_pc' = [ld_pc EXCEPT ![t] = "lock"]
    /\ UNCHANGED <<ld_run_test_type, ld_type, ld_nr_to_startup, ld_mutex,
                   ld_released, ld_loops, besidesLoad>>

\* thread_start up to the barrier: a chase worker builds its chases, any
\* other worker maps its load arena and sets every byte of it to 1
LoadPrepare(t) ==
    /\ ld_pc[t] = "start"
    /\ ld_arena' = [ld_arena EXCEPT ![t] =
                        IF ld_type[t] = "RUN_CHASE" THEN "NULL" ELSE "touched"]
    /\ ld_pc' = [ld_pc EXCEPT ![t] = "lock"]
    /\ UNCHANGED <<ld_run_test_type, ld_type, ld_nr_to_startup, ld_mutex,
                   ld_released, ld_loops, besidesLoad>>

\* pthread_mutex_lock(&wait_mutex)
LoadLock(t) ==
    /\ ld_pc[t] = "lock"
    /\ ld_mutex = Free
    /\ ld_mutex' = t
    /\ ld_pc' = [ld_pc EXCEPT ![t] = "arrive"]
    /\ UNCHANGED <<ld_run_test_type, ld_type, ld_arena, ld_nr_to_startup,
                   ld_released, ld_loops, besidesLoad>>

\* --nr_to_startup; pthread_cond_wait or pthread_cond_broadcast
LoadArrive(t) ==
    /\ ld_pc[t] = "arrive"
    /\ ld_nr_to_startup' = ld_nr_to_startup - 1
    /\ IF ld_nr_to_startup - 1 # 0
       THEN /\ ld_pc' = [ld_pc EXCEPT ![t] = "wait"]
            /\ ld_mutex' = Free
            /\ UNCHANGED ld_released
       ELSE /\ ld_pc' = [u \in DOMAIN ld_pc |->
                            IF u = t THEN "unlock"
                            ELSE IF ld_pc[u] = "wait" THEN "woken"
                            ELSE ld_pc[u]]
            /\ ld_released' = [ld_released EXCEPT ![t] = TRUE]
            /\ UNCHANGED ld_mutex
    /\ UNCHANGED <<ld_run_test_type, ld_type, ld_arena, ld_loops, besidesLoad>>

\* pthread_cond_wait returns without a broadcast
LoadSpuriousWakeup(t) ==
    /\ ld_pc[t] = "wait"
    /\ ld_pc' = [ld_pc EXCEPT ![t] = "woken"]
    /\ UNCHANGED <<ld_run_test_type, ld_type, ld_arena, ld_nr_to_startup,
                   ld_mutex, ld_released, ld_loops, besidesLoad>>

\* pthread_cond_wait takes the mutex again and returns
LoadReacquire(t) ==
    /\ ld_pc[t] = "woken"
    /\ ld_mutex = Free
    /\ ld_mutex' = t
    /\ ld_pc' = [ld_pc EXCEPT ![t] = "unlock"]
    /\ ld_released' = [ld_released EXCEPT ![t] = TRUE]
    /\ UNCHANGED <<ld_run_test_type, ld_type, ld_arena, ld_nr_to_startup,
                   ld_loops, besidesLoad>>

\* pthread_mutex_unlock(&wait_mutex); chase->fn or memload->fn is entered
LoadUnlock(t) ==
    /\ ld_pc[t] = "unlock"
    /\ ld_mutex' = Free
    /\ ld_pc' = [ld_pc EXCEPT ![t] = "kernel"]
    /\ UNCHANGED <<ld_run_test_type, ld_type, ld_arena, ld_nr_to_startup,
                   ld_released, ld_loops, besidesLoad>>

\* one trip through the loop of the kernel function
LoadKernel(t) ==
    /\ ld_pc[t] = "kernel"
    /\ ld_loops[t] < MaxStartLoops
    /\ ld_loops' = [ld_loops EXCEPT ![t] = @ + 1]
    /\ UNCHANGED <<ld_run_test_type, ld_type, ld_arena, ld_pc, ld_nr_to_startup,
                   ld_mutex, ld_released, besidesLoad>>

LoadNext ==
    \/ \E t \in DOMAIN ld_pc : LoadPrepare(t)
    \/ \E t \in DOMAIN ld_pc : LoadLock(t)
    \/ \E t \in DOMAIN ld_pc : LoadArrive(t)
    \/ \E t \in DOMAIN ld_pc : LoadSpuriousWakeup(t)
    \/ \E t \in DOMAIN ld_pc : LoadReacquire(t)
    \/ \E t \in DOMAIN ld_pc : LoadUnlock(t)
    \/ \E t \in DOMAIN ld_pc : LoadKernel(t)

(***************************************************************************)
(* One chase worker's count between its kernel and main's sampler, with    *)
(* the history of what was added and what was taken (multichase.c:93-103   *)
(* and 782-786).                                                           *)
(***************************************************************************)
\* a swap that returns what it stored
lock_test_and_set_new(c, v) == [ret |-> v, mem |-> v]

\* __sync_lock_test_and_set(&count, v): the old value is returned
lock_test_and_set(c, v) == [ret |-> c, mem |-> v]

TallyIdle ==
    /\ tl_unroll = 0
    /\ tl_count = 0
    /\ tl_trips = 0
    /\ tl_swapped = 0
    /\ tl_wrapped = FALSE
    /\ tl_pc = "idle"

\* the worker enters its kernel with count = 0
TallyInit ==
    /\ tl_unroll \in UnrollFactors
    /\ tl_count = 0
    /\ tl_trips = 0
    /\ tl_swapped = 0
    /\ tl_wrapped = FALSE
    /\ tl_pc = "loop"

\* the end of one trip: while (__sync_add_and_fetch(&t->x.count, U))
TallyAdd ==
    /\ tl_pc = "loop"
    /\ tl_trips < MaxTallyTrips
    /\ tl_count' = add_and_fetch(tl_count, tl_unroll)
    /\ tl_trips' = tl_trips + 1
    /\ tl_wrapped' = (tl_wrapped \/ tl_count + tl_unroll >= Pow2(CountBits))
    /\ tl_pc' = IF add_and_fetch(tl_count, tl_unroll) = 0 THEN "returned" ELSE "loop"
    /\ UNCHANGED <<tl_unroll, tl_swapped, besidesTally>>

\* main: cur_samples[i] = __sync_lock_test_and_set(&thread_data[i].x.count, 0)
TallySwap ==
    /\ tl_pc # "idle"
    /\ \E r \in {lock_test_and_set(tl_count, 0)} :
        /\ tl_count' = r.mem
        /\ tl_swapped' = tl_swapped + r.ret
    /\ UNCHANGED <<tl_unroll, tl_trips, tl_wrapped, tl_pc, besidesTally>>

TallyNext == TallyAdd \/ TallySwap

(***************************************************************************)
(* The seeding of the thread-local random generator by main and by the     *)
(* workers, and their draws (permutation.h:94-121, multichase.c:414-454    *)
(* and 730-763, multiload.c:650-690 and 1125-1199).                        *)
(***************************************************************************)
\* rng_init: rand_state = calloc(...), initstate_r(thread_num, ...)
rng_init(state) == "seeded"

\* random_r(rand_state, &r1): glibc returns -1 with EINVAL for a NULL state,
\* and rng_int then calls exit(1)
random_r(state) == IF state = "NULL" THEN "EINVAL" ELSE "drawn"

\* the calls of rng_int gen_permutation makes for nr elements: none when
\* ordered, else one per element; "exit" when the first random_r fails
gen_permutation_calls(ordered, nr, state) ==
    IF ordered \/ nr = 0 THEN [how |-> "done", calls |-> 0]
    ELSE IF random_r(state) = "EINVAL" THEN [how |-> "exit", calls |-> 1]
    ELSE [how |-> "done", calls |-> nr]

SeedThreads == DOMAIN sd_pc \ {Main}

SeedIdle ==
    /\ sd_tool = ""
    /\ sd_ordered = FALSE
    /\ sd_bandwidth = FALSE
    /\ sd_nr = 0
    /\ sd_rand_state = <<>>
    /\ sd_pc = <<>>
    /\ sd_calls = <<>>
    /\ sd_unseeded = {}

\* main after getopt: every thread-local rand_state is NULL
SeedInit ==
    \E n \in 1 .. MaxSeedThreads :
        LET threads == {Main} \cup (0 .. n - 1) IN
        /\ sd_tool \in {"multichase", "multiload"}
        /\ sd_ordered \in BOOLEAN
        /\ sd_bandwidth \in (IF sd_tool = "multiload" THEN BOOLEAN ELSE {FALSE})
        /\ sd_nr \in 1 .. MaxSeedElts
        /\ sd_rand_state = [t \in threads |-> "NULL"]
        /\ sd_pc = [t \in threads |-> IF t = Main THEN "seed" ELSE "unborn"]
        /\ sd_calls = [t \in threads |-> 0]
        /\ sd_unseeded = {}

\* multiload.c: rng_init(1); multichase.c has no such call
MainSeed ==
    /\ sd_pc[Main] = "seed"
    /\ sd_rand_state' = [sd_rand_state EXCEPT ![Main] =
                            IF sd_tool = "multiload" THEN rng_init(@) ELSE @]
    /\ sd_pc' = [sd_pc EXCEPT ![Main] = "mixer"]
    /\ UNCHANGED <<sd_tool, sd_ordered, sd_bandwidth, sd_nr, sd_calls,
                   sd_unseeded, besidesSeed>>

\* generate_chase_mixer(&genchase_args), skipped for RUN_BANDWIDTH
MainMixer ==
    /\ sd_pc[Main] = "mixer"
    /\ LET g == IF sd_bandwidth THEN [how |-> "done", calls |-> 0]
                ELSE gen_permutation_calls(sd_ordered, sd_nr,
                                           sd_rand_state[Main])
       IN /\ sd_pc' = [sd_pc EXCEPT ![Main] =
                            IF g.how = "exit" THEN "exit" ELSE "create"]
          /\ sd_calls' = [sd_calls EXCEPT ![Main] = @ + g.calls]
          /\ sd_unseeded' = IF g.how = "exit" THEN sd_unseeded \cup {Main}
                            ELSE sd_unseeded
    /\ UNCHANGED <<sd_tool, sd_ordered, sd_bandwidth, sd_nr, sd_rand_state,
                   besidesSeed>>

\* the loop of pthread_create
MainSpawn ==
    /\ sd_pc[Main] = "create"
    /\ sd_pc' = [t \in DOMAIN sd_pc |-> IF t = Main THEN "wait" ELSE "seed"]
    /\ UNCHANGED <<sd_tool, sd_ordered, sd_bandwidth, sd_nr, sd_rand_state,
                   sd_calls, sd_unseeded, besidesSeed>>

\* thread_start: rng_init(args->x.thread_num)
WorkerSeed(t) ==
    /\ sd_pc[t] = "seed"
    /\ sd_rand_state' = [sd_rand_state EXCEPT ![t] = rng_init(@)]
    /\ sd_pc' = [sd_pc EXCEPT ![t] = "generate"]
    /\ UNCHANGED <<sd_tool, sd_ordered, sd_bandwidth, sd_nr, sd_calls,
                   sd_unseeded, besidesSeed>>

\* thread_start: generate_chase for a chase worker, nothing random for a
\* bandwidth worker
WorkerGenerate(t) ==
    /\ sd_pc[t] = "generate"
    /\ LET g == IF sd_bandwidth THEN [how |-> "done", calls |-> 0]
                ELSE gen_permutation_calls(sd_ordered, sd_nr, sd_rand_state[t])
       IN /\ sd_pc' = [sd_pc EXCEPT ![t] =
                            IF g.how = "exit" THEN "exit" ELSE "barrier"]
          /\ sd_calls' = [sd_calls EXCEPT ![t] = @ + g.calls]
          /\ sd_unseeded' = IF g.how = "exit" THEN sd_unseeded \cup {t}
                            ELSE sd_unseeded
    /\ UNCHANGED <<sd_tool, sd_ordered, sd_bandwidth, sd_nr, sd_rand_state,
                   besidesSeed>>

SeedNext ==
    \/ MainSeed
    \/ MainMixer
    \/ MainSpawn
    \/ \E t \in SeedThreads : WorkerSeed(t)
    \/ \E t \in SeedThreads : WorkerGenerate(t)

(***************************************************************************)
(* The two threads of the ping-pong tool: common_setup, then the loop of   *)
(* exchanges on *pingpong_mutex (arena.h:93-169).  Thread t has me = t and *)
(* buddy = 1 - t.  The word is one aligned location read and written with  *)
(* volatile accesses, so its values are those of an interleaving.          *)
(***************************************************************************)
PingpongThreads == {0, 1}

\* __sync_bool_compare_and_swap(p, old, new)
compare_and_swap(word, old, new) ==
    IF word = old THEN [ok |-> TRUE, word |-> new] ELSE [ok |-> FALSE, word |-> word]

PingpongIdle ==
    /\ pp_loop = ""
    /\ pp_pingpong_mutex = "NULL"
    /\ pp_word = 0
    /\ pp_cache = <<>>
    /\ pp_wait_for_buddy = 0
    /\ pp_wait_mutex = Free
    /\ pp_stop_loops = 0
    /\ pp_pc = <<>>
    /\ pp_log = <<>>

\* main has created the odd and the even thread
PingpongInit ==
    /\ pp_loop \in {"locked_loop", "unlocked_loop"}
    /\ pp_pingpong_mutex = "NULL"
    /\ pp_word = 0
    /\ pp_cache = [t \in PingpongThreads |-> "NULL"]
    /\ pp_wait_for_buddy = 1
    /\ pp_wait_mutex = Free
    /\ pp_stop_loops = 0
    /\ pp_pc = [t \in PingpongThreads |-> "setup"]
    /\ pp_log = <<>>

\* common_setup: thread 0 maps the page and stores me in it
PingpongMap(t) ==
    /\ pp_pc[t] = "setup"
    /\ IF t = 0
       THEN pp_pingpong_mutex' = "mapped" /\ pp_word' = t
       ELSE UNCHANGED <<pp_pingpong_mutex, pp_word>>
    /\ pp_pc' = [pp_pc EXCEPT ![t] = "lock"]
    /\ UNCHANGED <<pp_loop, pp_cache, pp_wait_for_buddy, pp_wait_mutex,
                   pp_stop_loops, pp_log, besidesPingpong>>

\* common_setup: pthread_mutex_lock(&wait_mutex)
PingpongLock(t) ==
    /\ pp_pc[t] = "lock"
    /\ pp_wait_mutex = Free
    /\ pp_wait_mutex' = t
    /\ pp_pc' = [pp_pc EXCEPT ![t] = "check"]
    /\ UNCHANGED <<pp_loop, pp_pingpong_mutex, pp_word, pp_cache,
                   pp_wait_for_buddy, pp_stop_loops, pp_log, besidesPingpong>>

\* common_setup: if (wait_for_buddy) { wait_for_buddy = 0; pthread_cond_wait }
\* else { wait_for_buddy = 1; pthread_cond_broadcast }
PingpongCheck(t) ==
    /\ pp_pc[t] = "check"
    /\ IF pp_wait_for_buddy # 0
       THEN /\ pp_wait_for_buddy' = 0
            /\ pp_wait_mutex' = Free
            /\ pp_pc' = [pp_pc EXCEPT ![t] = "wait"]
       ELSE /\ pp_wait_for_buddy' = 1
            /\ pp_pc' = [u \in PingpongThreads |->
                            IF u = t THEN "unlock"
                            ELSE IF pp_pc[u] = "wait" THEN "woken"
                            ELSE pp_pc[u]]
            /\ UNCHANGED pp_wait_mutex
    /\ UNCHANGED <<pp_loop, pp_pingpong_mutex, pp_word, pp_cache, pp_stop_loops,
                   pp_log, besidesPingpong>>

\* pthread_cond_wait returns without a broadcast
PingpongSpuriousWakeup(t) ==
    /\ pp_pc[t] = "wait"
    /\ pp_pc' = [pp_pc EXCEPT ![t] = "woken"]
    /\ UNCHANGED <<pp_loop, pp_pingpong_mutex, pp_word, pp_cache,
                   pp_wait_for_buddy, pp_wait_mutex, pp_stop_loops, pp_log,
                   besidesPingpong>>

\* pthread_cond_wait takes the mutex again and returns
PingpongReacquire(t) ==
    /\ pp_pc[t] = "woken"
    /\ pp_wait_mutex = Free
    /\ pp_wait_mutex' = t
    /\ pp_pc' = [pp_pc EXCEPT ![t] = "unlock"]
    /\ UNCHANGED <<pp_loop, pp_pingpong_mutex, pp_word, pp_cache,
                   pp_wait_for_buddy, pp_stop_loops, pp_log, besidesPingpong>>

\* common_setup: pthread_mutex_unlock(&wait_mutex)
PingpongUnlock(t) ==
    /\ pp_pc[t] = "unlock"
    /\ pp_wait_mutex' = Free
    /\ pp_pc' = [pp_pc EXCEPT ![t] = "enter"]
    /\ UNCHANGED <<pp_loop, pp_pingpong_mutex, pp_word, pp_cache,
                   pp_wait_for_buddy, pp_stop_loops, pp_log, besidesPingpong>>

\* atomic_t *cache_pingpong_mutex = pingpong_mutex
PingpongEnter(t) ==
    /\ pp_pc[t] = "enter"
    /\ pp_cache' = [pp_cache EXCEPT ![t] = pp_pingpong_mutex]
    /\ pp_pc' = [pp_pc EXCEPT ![t] = "loop"]
    /\ UNCHANGED <<pp_loop, pp_pingpong_mutex, pp_word, pp_wait_for_buddy,
                   pp_wait_mutex, pp_stop_loops, pp_log, besidesPingpong>>

\* locked_loop: if (__sync_bool_compare_and_swap(cache_pingpong_mutex, me,
\* buddy)); through a NULL pointer the access faults
LockedXchg(t) ==
    /\ pp_pc[t] = "loop"
    /\ pp_loop = "locked_loop"
    /\ pp_stop_loops = 0
    /\ IF pp_cache[t] = "NULL"
       THEN /\ pp_pc' = [pp_pc EXCEPT ![t] = "fault"]
            /\ UNCHANGED <<pp_word, pp_log>>
       ELSE \E r \in {compare_and_swap(pp_word, t, 1 - t)} :
            /\ r.ok => Len(pp_log) < MaxExchanges
            /\ pp_word' = r.word
            /\ pp_log' = IF r.ok THEN Append(pp_log, t) ELSE pp_log
            /\ UNCHANGED pp_pc
    /\ UNCHANGED <<pp_loop, pp_pingpong_mutex, pp_cache, pp_wait_for_buddy,
                   pp_wait_mutex, pp_stop_loops, besidesPingpong>>

\* unlocked_xchg: if (*(volatile atomic_t *)p == old)
UnlockedLoad(t) ==
    /\ pp_pc[t] = "loop"
    /\ pp_loop = "unlocked_loop"
    /\ pp_stop_loops = 0
    /\ pp_pc' = [pp_pc EXCEPT ![t] =
                    IF pp_cache[t] = "NULL" THEN "fault"
                    ELSE IF pp_word = t THEN "store" ELSE "loop"]
    /\ UNCHANGED <<pp_loop, pp_pingpong_mutex, pp_word, pp_cache,
                   pp_wait_for_buddy, pp_wait_mutex, pp_stop_loops, pp_log,
                   besidesPingpong>>

\* unlocked_xchg: *(volatile atomic_t *)p = new; return 1
UnlockedStore(t) ==
    /\ pp_pc[t] = "store"
    /\ Len(pp_log) < MaxExchanges
    /\ pp_word' = 1 - t
    /\ pp_log' = Append(pp_log, t)
    /\ pp_pc' = [pp_pc EXCEPT ![t] = "loop"]
    /\ UNCHANGED <<pp_loop, pp_pingpong_mutex, pp_cache, pp_wait_for_buddy,
                   pp_wait_mutex, pp_stop_loops, besidesPingpong>>

\* main: stop_loops = 1 after the last sample
PingpongStop ==
    /\ pp_stop_loops = 0
    /\ pp_stop_loops' = 1
    /\ UNCHANGED <<pp_loop, pp_pingpong_mutex, pp_word, pp_cache,
                   pp_wait_for_buddy, pp_wait_mutex, pp_pc, pp_log,
                   besidesPingpong>>

\* if (stop_loops) pthread_exit(0)
PingpongExit(t) ==
    /\ pp_pc[t] = "loop"
    /\ pp_stop_loops # 0
    /\ pp_pc' = [pp_pc EXCEPT ![t] = "exited"]
    /\ UNCHANGED <<pp_loop, pp_pingpong_mutex, pp_word, pp_cache,
                   pp_wait_for_buddy, pp_wait_mutex, pp_stop_loops, pp_log,
                   besidesPingpong>>

PingpongNext ==
    \/ \E t \in PingpongThreads : PingpongMap(t)
    \/ \E t \in PingpongThreads : PingpongLock(t)
    \/ \E t \in PingpongThreads : PingpongCheck(t)
    \/ \E t \in PingpongThreads : PingpongSpuriousWakeup(t)
    \/ \E t \in PingpongThreads : PingpongReacquire(t)
    \/ \E t \in PingpongThreads : PingpongUnlock(t)
    \/ \E t \in PingpongThreads : PingpongEnter(t)
    \/ \E t \in PingpongThreads : LockedXchg(t)
    \/ \E t \in PingpongThreads : UnlockedLoad(t)
    \/ \E t \in PingpongThreads : UnlockedStore(t)
    \/ PingpongStop
    \/ \E t \in PingpongThreads : PingpongExit(t)

(***************************************************************************)
(* Properties of the permutation generators and of the chase builder.      *)
(***************************************************************************)

\* C1: following the pointers from the head generate_chase returned comes
\* back to the head after exactly nr_elts = total_memory / stride steps, not
\* earlier; every visited cell lies inside [arena, arena + total_memory) and
\* every stride-sized slot of the arena holds exactly one visited cell.
InvC1 ==
    \A c \in DOMAIN cycle : Built(c) =>
        LET w == ChaseWalk(c)
            n == nr_elts_of(args)
        IN /\ w.closed
           /\ Len(w.cells) = n
           /\ \A i, j \in 1 .. Len(w.cells) : i # j => w.cells[i] # w.cells[j]
           /\ \A i \in 1 .. Len(w.cells) :
                /\ args.arena <= w.cells[i]
                /\ w.cells[i] + PtrSize <= args.arena + args.total_memory
           /\ \A x \in 0 .. n - 1 :
                Cardinality({i \in 1 .. Len(w.cells) :
                    /\ args.arena + x * args.stride <= w.cells[i]
                    /\ w.cells[i] < args.arena + (x + 1) * args.stride}) = 1

\* two chases of at least three elements share the arena, both are built and
\* the first was drawn out of order
WitC1 ==
    /\ ChaseActive
    /\ args.nr_chases = 2
    /\ \A c \in DOMAIN cycle : Built(c)
    /\ nr_elts_of(args) >= 3
    /\ \E k \in DOMAIN last_perm[0] : last_perm[0][k] # k
    /\ ChaseWalk(0).closed

\* C2: whatever the draws, gen_random_permutation leaves in out[0 .. nr) each
\* of base .. base + nr - 1 exactly once, and for base = 0 is_a_permutation
\* returns 1 on the result.
InvC2 ==
    (perm_nr > 0 /\ ~PermFresh) =>
        /\ \A v \in perm_base .. perm_base + perm_nr - 1 :
            Cardinality({i \in 0 .. perm_nr - 1 : perm_out[i] = v}) = 1
        /\ (perm_base = 0 /\ perm_ret # NotCalled) => perm_ret = 1

\* a shuffled array of the largest size was generated from base 0 and checked
WitC2 ==
    /\ perm_nr >= 3
    /\ perm_base = 0
    /\ ~PermFresh
    /\ perm_out[0] # 0
    /\ perm_ret = 1

\* C3: for every element x and any two distinct mixer indices a, b below
\* nr_mixer_indices, the base_object_size bytes at MIXED(x) under a and under
\* b lie inside x's stride slot and do not overlap; no byte of the arena is
\* written by the builders of two different mixer indices.
InvC3 ==
    (ChaseActive /\ args.nr_mixers # 0) =>
        /\ \A x \in 0 .. nr_elts_of(args) - 1 :
           \A a, b \in 0 .. args.nr_mixer_indices - 1 :
                /\ x * args.stride <= MIXED(args, a, x)
                /\ MIXED(args, a, x) + args.base_object_size <= (x + 1) * args.stride
                /\ a # b =>
                    \/ MIXED(args, a, x) + args.base_object_size <= MIXED(args, b, x)
                    \/ MIXED(args, b, x) + args.base_object_size <= MIXED(args, a, x)
        /\ \A b \in DOMAIN owner : owner[b] # Clash

\* two chases are built in one arena whose mixer differs between elements
WitC3 ==
    /\ ChaseActive
    /\ args.nr_chases = 2
    /\ \A c \in DOMAIN cycle : Built(c)
    /\ nr_elts_of(args) >= 2
    /\ MIXED(args, 0, 0) # MIXED(args, 0, 1) - args.stride
    /\ \E b \in DOMAIN owner : owner[b] = 1

\* C4: with windows of tlb_locality bytes counted from the arena, the cells
\* of a window are visited in one run of nr_elts_per_tlb consecutive steps of
\* the cycle: the walk enters each window once per lap (never, when there is
\* one window only).
InvC4 ==
    \A c \in DOMAIN cycle : Built(c) =>
        LET w == ChaseWalk(c)
            n == Len(w.cells)
            win(i) == (w.cells[i] - args.arena) \div args.tlb_locality
            prev(i) == IF i = 1 THEN n ELSE i - 1
        IN /\ w.closed
           /\ \A k \in 0 .. nr_tlb_groups_of(args) - 1 :
                /\ Cardinality({i \in 1 .. n : win(i) = k}) = nr_elts_per_tlb_of(args)
                /\ Cardinality({i \in 1 .. n : win(i) = k /\ win(prev(i)) # k})
                   = (IF nr_tlb_groups_of(args) > 1 THEN 1 ELSE 0)

\* a shuffled chase over two windows of two elements whose head is the second
\* cell visited in its window
WitC4 ==
    /\ ChaseActive
    /\ ~args.ordered
    /\ nr_tlb_groups_of(args) = 2
    /\ nr_elts_per_tlb_of(args) = 2
    /\ Built(0)
    /\ LET w == ChaseWalk(0) IN
        /\ w.closed
        /\ (w.cells[1] - args.arena) \div args.tlb_locality
           = (w.cells[Len(w.cells)] - args.arena) \div args.tlb_locality

(***************************************************************************)
(* Properties of the start barrier.                                        *)
(***************************************************************************)

\* whether worker t has built its chase or buffer and decremented
\* nr_to_startup
Arrived(t) == pc[t] \in {"wait", "woken", "unlock", "kernel"}

\* C5: no worker is in its kernel function, and main is not sampling, unless
\* every worker has finished building and nr_to_startup has reached zero.
InvC5 ==
    /\ \A t \in Workers :
        pc[t] = "kernel" => (nr_to_startup = 0 /\ \A u \in Workers : Arrived(u))
    /\ main_pc = "sample" => (nr_to_startup = 0 /\ \A u \in Workers : Arrived(u))

(***************************************************************************)
(* Properties of the iteration counter.                                    *)
(***************************************************************************)

\* C6: between two swaps count does not decrease and is a multiple of the
\* kernel's unroll factor, and so is every value a swap obtains.
InvC6 ==
    kernel_pc # "idle" =>
        /\ prev_count <= count
        /\ count % unroll = 0
        /\ cur_samples % unroll = 0

\* C10: the kernel never leaves its do-while loop, that is
\* __sync_add_and_fetch never returns 0.
InvC10 == kernel_pc # "returned"

(***************************************************************************)
(* Properties of the sampling loop.                                        *)
(***************************************************************************)

\* the rounds 1 .. n in order
Rounds(n) == [i \in 1 .. n |-> i]

\* C7: for nr_samples >= 1 the report is computed from exactly nr_samples
\* rounds: round 0 adds to no aggregate, every round 1 .. nr_samples adds
\* once, and the means divide by nr_samples.
InvC7 ==
    (sampler_pc = "reported" /\ nr_samples_arg >= 1) =>
        /\ nr_chase_threads > 0 => contributors = Rounds(nr_samples_arg)
        /\ nr_load_threads > 0 => load_contributors = Rounds(nr_samples_arg)
        /\ divisor = nr_samples_arg

(***************************************************************************)
(* Properties of the bandwidth sampling protocol.                          *)
(***************************************************************************)

\* C8: what main takes from a worker's count in round k >= 1 is exactly one
\* figure, published for request k after main stored sample_no = k; a worker
\* is about to publish only for a request that differs from the last one it
\* answered and while count is 0, answers no request twice, and count never holds two
\* publications or, once main waits in round k, a figure for an older one.
InvC8 ==
    \A t \in LoadWorkers :
        /\ Len(in_count[t]) <= 1
        /\ load_pc[t] = "add" => (cur_sample[t] # nxt_sample[t] /\ x_count[t] = 0)
        /\ \A i, j \in 1 .. Len(published[t]) :
                i # j => published[t][i] # published[t][j]
        /\ collected[t].round >= 1 =>
                /\ Len(collected[t].pubs) = 1
                /\ collected[t].pubs[1].req = collected[t].round
                /\ collected[t].pubs[1].after >= collected[t].round + 1
                /\ collected[t].pubs[1].fig = collected[t].val
        /\ (bw_sample_no >= 1 /\ (bw_pc = "poll" \/ (bw_pc = "store" /\ t < bw_i))) =>
                \A i \in 1 .. Len(in_count[t]) :
                    in_count[t][i].fig # 0 => in_count[t][i].req = bw_sample_no

\* main has taken the last round's figure from the second of two workers
WitC8 ==
    /\ bw_threads = 2
    /\ bw_pc = "done"
    /\ collected[1].round = bw_nr_samples - 1
    /\ collected[1].round >= 2

(***************************************************************************)
(* Properties of the branch-chase rewriter.                                *)
(***************************************************************************)

\* the number of chunks of a converted cycle: the elements whose code ends
\* in a return
NrChunks ==
    Cardinality({i \in 1 .. Len(br_order) :
                    Decode(br_variant[2], br_mem, br_order[i]).op = "ret"})

\* C9: once convert_pointers_to_branches has returned, every call into the
\* emitted code returns, the elements are executed in the order of the
\* original cycle, and after as many calls as there are chunks every element
\* has been executed once and the address returned is head.
InvC9 ==
    br_pc = "returned" =>
        /\ exec_pc = "ready"
        /\ \A i \in 1 .. Len(visited) :
            visited[i] = br_order[((i - 1) % Len(br_order)) + 1]
        /\ calls = NrChunks => (visited = br_order /\ exec_p = br_head)

(***************************************************************************)
(* Properties of main's argument handling.                                 *)
(***************************************************************************)

\* main has normalised the arguments and not exited since
Normalised == setup_pc \in {"check", "allocate", "create", "wait"}

ChasesGiven == {cmdline[i].arg : i \in {j \in DOMAIN cmdline : cmdline[j].opt = "c"}}

\* whether the command line has a -l
MemloadGiven == \E i \in DOMAIN cmdline : cmdline[i].opt = "l"

\* C12: for a multiload command line with at most one -c, of a known chase,
\* once getopt is through: -l with a chase other than chaseload ends in the
\* usage text and exit(1), in either order; -l alone runs the bandwidth
\* test, -c chaseload the loaded-latency test, any other -c alone the
\* latency test.
InvC12 ==
    (/\ tool = "multiload"
     /\ setup_pc # "getopt"
     /\ Cardinality(ChasesGiven) <= 1
     /\ "nosuch" \notin ChasesGiven) =>
        /\ (MemloadGiven /\ ChasesGiven # {} /\ ChasesGiven # {"chaseload"}) =>
                setup_pc = "usage"
        /\ (MemloadGiven /\ ChasesGiven = {}) =>
                (setup_pc # "usage" /\ run_test_type = "RUN_BANDWIDTH")
        /\ ChasesGiven = {"chaseload"} =>
                (setup_pc # "usage" /\ run_test_type = "RUN_CHASE_LOADED")
        /\ (~MemloadGiven /\ ChasesGiven # {} /\ ChasesGiven # {"chaseload"}) =>
                (setup_pc # "usage" /\ run_test_type = "RUN_CHASE")

\* C13: every mixer_idx a thread passes to generate_chase is below
\* nr_mixer_indices; a run that builds a chase gets past the checks only with
\* stride >= sizeof(void *) and nr_mixer_indices >= nr_threads * parallelism;
\* and when main exits with status 1 no mixer was built, no arena allocated
\* and no thread created.
InvC13 ==
    /\ \A e \in passed : e[2] < genchase_args.nr_mixer_indices
    /\ (setup_pc \in {"allocate", "create", "wait"} /\ run_test_type # "RUN_BANDWIDTH") =>
            /\ requested.stride >= PtrSize
            /\ genchase_args.nr_mixer_indices >=
                    setup_nr_threads * chases(tool)[chase].parallelism
    /\ setup_pc \in {"usage", "exit1"} =>
            (~mixer_built /\ ~arena_allocated /\ thread_type = <<>>)

(***************************************************************************)
(* Properties of the number of mixers.                                     *)
(***************************************************************************)

\* whether n is a power of two
IsPowerOfTwo(n) == \E k \in 0 .. BitLen(n) : n = Pow2(k)

\* C14: after generate_chase_mixer the stored nr_mixers is a power of two,
\* at least the requested count and, in the variant with a floor, at least
\* 64; the table has nr_mixers slots per mixer index and x & (nr_mixers - 1)
\* is one of them for every element index x.
InvC14 ==
    mx_pc = "returned" =>
        /\ IsPowerOfTwo(mx_args.nr_mixers)
        /\ mx_args.nr_mixers >= mx_requested
        /\ mx_variant = "part_001" => mx_args.nr_mixers >= MixersFloor
        /\ DOMAIN mx_args.mixer = 0 .. mx_args.nr_mixer_indices * mx_args.nr_mixers - 1
        /\ \A x \in 0 .. 2 * mx_args.nr_mixers :
                BitAnd(x, mx_args.nr_mixers - 1) \in 0 .. mx_args.nr_mixers - 1

(***************************************************************************)
(* Termination of the sampling loop.                                       *)
(***************************************************************************)

\* C15: with fair scheduling, for -n k with k >= 1 main makes exactly k + 1
\* trips of the sampling loop and then reports and exits; for -n 0 the loop
\* never ends.
LiveC15 ==
    /\ [](nr_samples_arg >= 1 =>
            <>(sampler_pc = "reported" /\ rounds = nr_samples_arg + 1))
    /\ [](sampler_pc = "reported" => (nr_samples_arg >= 1 /\ rounds = nr_samples_arg + 1))

(***************************************************************************)
(* Properties of the map from draws to permutations.                       *)
(***************************************************************************)
\* the array gen_random_permutation(out, nr, base) leaves for the draws t
PermutationOf(nr, base, t) ==
    gen_random_permutation([i \in 0 .. nr - 1 |-> Uninit], 0, nr, base, t)

\* the arrays the draw sequences of length nr produce
PermutationImage(nr, base) == {PermutationOf(nr, base, t) : t \in Draws(nr)}

\* the bijections from [0, nr) onto {base .. base + nr - 1}
PermutationsOnto(nr, base) ==
    {f \in [0 .. nr - 1 -> base .. base + nr - 1] :
        \A i, j \in 0 .. nr - 1 : f[i] = f[j] => i = j}

RECURSIVE Factorial(_)
Factorial(n) == IF n <= 1 THEN 1 ELSE n * Factorial(n - 1)

\* C16: the map from the draw sequences (t_0 .. t_{nr-1}), t_i in [0, i], to
\* the array gen_random_permutation(out, nr, base) produces is a bijection
\* onto the nr! permutations of {base .. base + nr - 1}: there are nr! draw
\* sequences, their arrays are exactly the permutations, no two sequences
\* give the same array, and the array a call left comes from one sequence only
InvC16 ==
    perm_nr >= 1 =>
        /\ Cardinality(Draws(perm_nr)) = Factorial(perm_nr)
        /\ PermutationImage(perm_nr, perm_base) = PermutationsOnto(perm_nr, perm_base)
        /\ Cardinality(PermutationImage(perm_nr, perm_base)) = Factorial(perm_nr)
        /\ perm_out \in PermutationImage(perm_nr, perm_base) =>
              Cardinality({t \in Draws(perm_nr) :
                              PermutationOf(perm_nr, perm_base, t) = perm_out}) = 1

\* a call with three or more elements left an array that is not the ordered
\* one and whose last draw was not the last slot
WitC16 ==
    /\ perm_nr >= 3
    /\ perm_out \in PermutationImage(perm_nr, perm_base)
    /\ perm_out[perm_nr - 1] # perm_base + perm_nr - 1
    /\ perm_out[0] # perm_base
    /\ perm_ret = NotCalled

(***************************************************************************)
(* Properties of rng_int.                                                  *)
(***************************************************************************)
\* C17: for every limit >= 0 and every raw generator output in [0, RAND_MAX]
\* rng_int(limit) returns a value in [0, limit], never limit + 1, in the
\* implementation that reduces modulo limit + 1 and in the one that scales
\* limit + 1 by r / RAND_MAX
InvC17 ==
    rng_ret # NotCalled => (0 <= rng_ret /\ rng_ret <= rng_limit)

(***************************************************************************)
(* Properties of is_a_permutation.                                         *)
(***************************************************************************)
\* p is a bijection from [0, nr) onto [0, nr)
IsBijection(p, nr) ==
    /\ \A i \in 0 .. nr - 1 : p[i] \in 0 .. nr - 1
    /\ \A i, j \in 0 .. nr - 1 : p[i] = p[j] => i = j

\* C18: for every array p of nr_elts values is_a_permutation(p, nr_elts)
\* returns 1 exactly when p is a bijection onto [0, nr_elts) and 0 otherwise,
\* and it never reads or writes the bitset outside its ceil(nr_elts / 8)
\* bytes, also when some p[i] >= nr_elts
InvC18 ==
    isp_ret # NotCalled =>
        /\ isp_ret = (IF IsBijection(isp_p, isp_nr) THEN 1 ELSE 0)
        /\ ~isp_oob

(***************************************************************************)
(* Properties of the two ways of threading a chase.                        *)
(***************************************************************************)
\* the chase of mixer column c threaded on a fresh arena from the permutation
\* its call drew, link by link and by element
ForwardChase(c) ==
    [mem |-> thread_loop(args, c, last_perm[c], <<>>, 0),
     head |-> args.arena + MIXED(args, c, 0)]

InverseChase(c) == generate_chase_inverse(args, <<>>, c, last_perm[c])

WalkOf(g) ==
    follow(g.mem, args.offset + args.total_memory, g.head, g.head, <<>>,
           nr_elts_of(args))

\* C19: for the same element permutation and the same mixer column the
\* forward-link builder and the inverse-permutation builder write the same
\* pointer into every cell, return the same head and define the same cycle
InvC19 ==
    \A c \in DOMAIN cycle : Built(c) =>
        /\ \A x \in 0 .. nr_elts_of(args) - 1 :
              LoadPtr(ForwardChase(c).mem, args.offset + args.total_memory,
                      args.arena + MIXED(args, c, x))
              = LoadPtr(InverseChase(c).mem, args.offset + args.total_memory,
                        args.arena + MIXED(args, c, x))
        /\ ForwardChase(c).mem = InverseChase(c).mem
        /\ ForwardChase(c).head = InverseChase(c).head
        /\ cycle[c] = InverseChase(c).head
        /\ WalkOf(ForwardChase(c)) = WalkOf(InverseChase(c))
        /\ args.nr_chases = 1 => mem = InverseChase(c).mem

\* a chase of four elements drawn at random, neither ordered nor its own
\* inverse, has been built
WitC19 ==
    /\ ChaseActive
    /\ Built(0)
    /\ nr_elts_of(args) >= 4
    /\ ~args.ordered
    /\ \E k \in DOMAIN last_perm[0] : last_perm[0][last_perm[0][k]] # k
    /\ WalkOf(InverseChase(0)).closed
    /\ Len(WalkOf(InverseChase(0)).cells) = nr_elts_of(args)

(***************************************************************************)
(* Properties of the long chase.                                           *)
(***************************************************************************)
LongIters == nr_iteration_of(lg_args, lg_total_par)
LongCells == LongIters * nr_elts_of(lg_args)

\* the cells the chase visits from the returned head
LongWalk ==
    follow(lg_mem, lg_args.offset + lg_args.total_memory, lg_head, lg_head, <<>>,
           LongCells)

\* the element a cell belongs to, and the passes whose mixer row puts the
\* cell of that element there
EltOf(cell) == (cell - lg_args.arena) \div lg_args.stride
PassesOf(cell) ==
    {i \in 0 .. LongIters - 1 :
        cell = lg_args.arena + MIXED_2(lg_args, lg_mixer_idx, lg_total_par, EltOf(cell), i)}
PassOf(cell) == CHOOSE i \in PassesOf(cell) : TRUE

\* C20: with nr_iteration = nr_mixer_indices / total_par >= 1, following the
\* pointers from the head generate_chase_long returned visits
\* nr_iteration * nr_elts distinct cells and comes back to the head; every
\* element is visited exactly once in each pass, each pass through its own
\* mixer row, so that the cells of one element are pairwise distinct; the
\* chase moves from pass k to pass k + 1 exactly once per super-cycle; and no
\* cell is written twice, so that the assert on a cell being NULL does not fire
InvC20 ==
    lg_head # 0 =>
        LET w == LongWalk
            n == nr_elts_of(lg_args)
            cells == w.cells
            succ(p) == IF p = Len(cells) THEN 1 ELSE p + 1
        IN /\ LongIters >= 1
           /\ w.closed
           /\ Len(cells) = LongCells
           /\ \A p, q \in 1 .. Len(cells) : p # q => cells[p] # cells[q]
           /\ \A p \in 1 .. Len(cells) :
                /\ EltOf(cells[p]) \in 0 .. n - 1
                /\ Cardinality(PassesOf(cells[p])) = 1
           /\ \A i \in 0 .. LongIters - 1 : \A x \in 0 .. n - 1 :
                Cardinality({p \in 1 .. Len(cells) :
                    EltOf(cells[p]) = x /\ PassesOf(cells[p]) = {i}}) = 1
           /\ \A x \in 0 .. n - 1 : \A i, k \in 0 .. LongIters - 1 :
                i # k => MIXED_2(lg_args, lg_mixer_idx, lg_total_par, x, i)
                         # MIXED_2(lg_args, lg_mixer_idx, lg_total_par, x, k)
           /\ \A p \in 1 .. Len(cells) :
                \/ PassOf(cells[succ(p)]) = PassOf(cells[p])
                \/ PassOf(cells[succ(p)]) = (PassOf(cells[p]) + 1) % LongIters
           /\ \A k \in 0 .. LongIters - 1 :
                Cardinality({p \in 1 .. Len(cells) :
                    /\ PassOf(cells[p]) = k
                    /\ PassOf(cells[succ(p)]) # k}) = (IF LongIters = 1 THEN 0 ELSE 1)
           /\ Len(lg_stores) = LongCells
           /\ \A p, q \in 1 .. Len(lg_stores) :
                p # q => (lg_stores[p] + PtrSize <= lg_stores[q]
                          \/ lg_stores[q] + PtrSize <= lg_stores[p])
           /\ ~lg_assert

\* a call with two or more passes over three or more elements drawn at
\* random, whose first pass does not start at element 0, has returned
WitC20 ==
    /\ lg_head # 0
    /\ LongIters >= 2
    /\ nr_elts_of(lg_args) >= 3
    /\ ~lg_args.ordered
    /\ lg_perm[0] # 0
    /\ lg_mixer_idx = 1
    /\ LongWalk.closed
    /\ Len(LongWalk.cells) = LongCells

(***************************************************************************)
(* Properties of the effective chunk size.                                 *)
(***************************************************************************)
\* the cycle length and the effective chunk size of the modelled call
BranchLen == Len(br_order)
BranchChunk == effective_chunk_size(BranchLen, br_chunk_size)

\* C21: for every cycle length n >= 1 and requested chunk_size >= 1 the
\* effective chunk size c of convert_pointers_to_branches is at least 1 and
\* divides n with n / c a power of two, so that n / c does not divide by
\* zero, and c is the value returned
InvC21 ==
    br_pc # "idle" =>
        /\ BranchChunk >= 1
        /\ BranchLen % BranchChunk = 0
        /\ IsPowerOfTwo(BranchLen \div BranchChunk)
        /\ br_pc # "sigfpe"
        /\ br_pc = "returned" => br_ret = BranchChunk

(***************************************************************************)
(* Properties of the rewritten elements.                                   *)
(***************************************************************************)
BranchArch == br_variant[2]

\* the successor of the i-th element in the original cycle
BranchSucc(i) == br_order[(i % BranchLen) + 1]

\* the arena as generate_chase left it: each element holds the address of
\* its successor
RECURSIVE PointerMem(_)
PointerMem(i) ==
    IF i = 0 THEN <<>>
    ELSE StorePtr(PointerMem(i - 1), br_order[i], BranchSucc(i))

\* the arena when the i-th element is reached: the elements before it hold
\* the code the call left in them
RECURSIVE MemWhenReached(_)
MemWhenReached(i) ==
    IF i = 1 THEN PointerMem(BranchLen)
    ELSE StoreBytes(MemWhenReached(i - 1), br_order[i - 1],
                    LoadBytes(br_mem, br_order[i - 1], br_code_len(BranchArch)))

\* the i-th element has a non-zero byte in [8, code_len) when it is reached
NonZeroTail(i) ==
    \E b \in 8 .. br_code_len(BranchArch) - 1 :
        ByteAt(MemWhenReached(i), br_order[i] - RegionBase + b) # 0

\* the positions at which a chunk ends: the call starts remain / chunk_size
\* chunks and gives each the share remain / chunks_remaining of what is left
RECURSIVE chunk_ends(_, _, _)
chunk_ends(remain, chunks_remaining, pos) ==
    IF chunks_remaining <= 0 \/ remain <= 0 THEN {}
    ELSE LET len == remain \div chunks_remaining
         IN {pos + len} \cup chunk_ends(remain - len, chunks_remaining - 1, pos + len)

BranchEnds ==
    IF BranchChunk = 0 THEN {}
    ELSE chunk_ends(BranchLen, BranchLen \div BranchChunk, 0)

\* the bytes the i-th element is to hold: on x86_64 48 B8, the address of its
\* successor, and FF E0 or C3 (the byte after C3 stays zero); on aarch64 what
\* the processor decodes as the load of that address and a br or a ret
HoldsBranchTo(i) ==
    LET e == br_order[i]
        op == IF i \in BranchEnds THEN "ret" ELSE "jump"
    IN /\ Decode(BranchArch, br_mem, e) = [op |-> op, to |-> BranchSucc(i)]
       /\ BranchArch = "x86_64" =>
            LoadBytes(br_mem, e, 12)
            = <<72, 184>> \o [k \in 1 .. 8 |-> ByteOf(BranchSucc(i), k - 1)]
              \o (IF op = "ret" THEN <<195, 0>> ELSE <<255, 224>>)

\* offsets of the arena inside the first code_len bytes of some element
CodeBytes ==
    {br_order[i] - RegionBase + b :
        i \in 1 .. BranchLen, b \in 0 .. br_code_len(BranchArch) - 1}

BranchLoop ==
    rewrite_loop(BranchArch, PointerMem(BranchLen), br_size, br_head, br_head,
                 BranchLen, 0, IntDiv(BranchLen, BranchChunk))

\* the positions in the cycle of the elements that end in a return
RetPositions ==
    {i \in 1 .. BranchLen : Decode(BranchArch, br_mem, br_order[i]).op = "ret"}

\* C28: when the rewrite loop of convert_pointers_to_branches is back at
\* head, remain and chunks_remaining are 0: every chunk started has at least
\* one element, the chunk lengths add up to the cycle length (the last
\* element of the cycle ends a chunk), as many elements end in a return as
\* there were chunks at the start, and the exit on an internal error is not
\* taken
InvC28 ==
    (br_pc \in {"returned", "exit"} /\ BranchLoop.how = "done") =>
        /\ BranchLoop.remain = 0
        /\ BranchLoop.chunks_remaining = 0
        /\ br_pc = "returned"
        /\ Cardinality(RetPositions) = IntDiv(BranchLen, BranchChunk)
        /\ BranchLen \in RetPositions
        /\ RetPositions = BranchEnds

(***************************************************************************)
(* Properties of the critword chase.                                       *)
(***************************************************************************)
\* the cells the chase kernel loads from thread t's head, two per element
CritwordWalk(t) ==
    follow(cw_mem, CritwordSize, cw_cycle[t], cw_cycle[t], <<>>,
           2 * nr_elts_of(cw_args))

\* C23: for the critword chase with argument N, 8 <= N <= base_object_size
\* - 8, the rewrite in thread_start terminates, and after it every cell p of
\* the chase holds p + N and the word at p + N holds the original successor
\* of p; the loads from the head go p, p + N, succ(p), succ(p) + N, ... in
\* the original order and are back at the head after exactly 2 * nr_elts
InvC23 ==
    \A t \in DOMAIN cw_pc :
        /\ cw_pc[t] \in {"start", "built", "rewritten"}
        /\ cw_pc[t] = "rewritten" =>
            LET n == nr_elts_of(cw_args)
                cell(i) == cw_order[t][i]
                succ(i) == cw_order[t][(i % n) + 1]
                w == CritwordWalk(t)
            IN /\ Len(cw_order[t]) = n
               /\ \A i \in 1 .. n :
                    /\ LoadPtr(cw_mem, CritwordSize, cell(i)) = cell(i) + cw_offset
                    /\ LoadPtr(cw_mem, CritwordSize, cell(i) + cw_offset) = succ(i)
               /\ w.closed
               /\ Len(w.cells) = 2 * n
               /\ \A i \in 1 .. n :
                    /\ w.cells[2 * i - 1] = cell(i)
                    /\ w.cells[2 * i] = cell(i) + cw_offset

\* two threads have rewritten their chases of three elements, drawn at
\* random, with an N that is no multiple of the pointer size
WitC23 ==
    /\ DOMAIN cw_pc = {0, 1}
    /\ \A t \in DOMAIN cw_pc : cw_pc[t] = "rewritten"
    /\ nr_elts_of(cw_args) >= 3
    /\ ~cw_args.ordered
    /\ cw_offset % PtrSize # 0
    /\ cw_order[0][2] # cw_order[0][1] + cw_args.stride
    /\ CritwordWalk(1).closed

(***************************************************************************)
(* Properties of the lookup of the chase name.                             *)
(***************************************************************************)
\* a name of chases[] without the blanks multiload pads it with
RECURSIVE Unpadded(_)
Unpadded(s) ==
    IF s # <<>> /\ s[Len(s)] = " " THEN Unpadded(SubSeq(s, 1, Len(s) - 1)) ELSE s

\* the name typed after -c, up to the colon
CoptName == SubSeq(copt_optarg, 1, ColonOf(copt_optarg) - 1)

CoptRegistered ==
    \E i \in 1 .. Len(CoptTable) :
        CoptName \in {CoptTable[i].name, Unpadded(CoptTable[i].name)}

\* C24: for -c <name>[:arg] the entry selected is the one whose name is
\* exactly <name> (-c critword:N selects critword, not critword2), and a name
\* that is not in the registry, a proper prefix of registered names such as
\* parallel or t included, is reported as unrecognized and goes to usage
InvC24 ==
    copt_pc \in {"selected", "usage", "exit"} =>
        /\ copt_pc = "selected" =>
                CoptName \in {CoptTable[copt_chase].name,
                              Unpadded(CoptTable[copt_chase].name)}
        /\ ~CoptRegistered => copt_pc = "usage"

\* -c critword:8 has been parsed for x86_64
WitC24 ==
    /\ copt_pc = "selected"
    /\ copt_arch = "x86_64"
    /\ copt_optarg = <<"c", "r", "i", "t", "w", "o", "r", "d", ":", "8">>

(***************************************************************************)
(* Properties of the bandwidth workers' load arena.                        *)
(***************************************************************************)
BandwidthWorkers == {t \in DOMAIN ld_pc : ld_type[t] = "RUN_BANDWIDTH"}

\* C25, as stated: a bandwidth worker allocates and touches its load arena
\* only after the start barrier has released it, and before the first
\* iteration of its kernel
OrigC25 ==
    \A t \in BandwidthWorkers :
        /\ ld_arena[t] # "NULL" => ld_released[t]
        /\ ld_loops[t] > 0 => ld_arena[t] = "touched"

\* C25, amended: a bandwidth worker allocates and touches its load arena
\* before it arrives at the start barrier, so the arena is touched whenever
\* the worker is past the start of thread_start, before the barrier
\* releases it and before the first iteration of its kernel
InvC25 ==
    \A t \in BandwidthWorkers :
        /\ ld_pc[t] # "start" <=> ld_arena[t] = "touched"
        /\ ld_released[t] => ld_arena[t] = "touched"
        /\ ld_loops[t] > 0 => ld_arena[t] = "touched"

\* a bandwidth worker waits at the barrier with its arena touched while
\* another one runs its kernel after a wakeup without a broadcast
WitC25 ==
    \E t, u \in BandwidthWorkers :
        /\ ld_pc[t] = "wait"
        /\ ld_arena[t] = "touched"
        /\ ~ld_released[t]
        /\ ld_loops[u] > 0

(***************************************************************************)
(* Liveness of the start barrier.                                          *)
(***************************************************************************)
\* after the broadcast nobody is left waiting, and nr_to_startup has not
\* gone below zero
NoLostWakeup ==
    /\ nr_to_startup >= 0
    /\ nr_to_startup = 0 =>
        /\ main_pc # "wait"
        /\ \A t \in Workers : pc[t] # "wait"

\* C26: under fair scheduling every thread that reaches the start barrier
\* is eventually released: every worker that has arrived enters its kernel
\* and main, once it checks the counter, starts sampling, for every order
\* of arrival; no wakeup is lost and nr_to_startup never goes below zero
LiveC26 ==
    /\ []NoLostWakeup
    /\ \A t \in 0 .. MaxThreads - 1 :
        (t \in Workers /\ pc[t] \in {"arrive", "wait"}) ~>
            (t \in Workers /\ pc[t] = "kernel")
    /\ (main_pc \in {"check", "wait"}) ~> (main_pc = "sample")

\* the last worker has broadcast while main and two workers were waiting
WitC26 ==
    /\ nr_to_startup = 0
    /\ main_pc = "woken"
    /\ \E t, u, v \in Workers :
        /\ t # u
        /\ pc[t] = "woken"
        /\ pc[u] = "woken"
        /\ pc[v] = "unlock"
        /\ wait_mutex = v

(***************************************************************************)
(* Properties of the worker's count under the sampler's swaps.             *)
(***************************************************************************)
\* C27: for every interleaving of the worker's atomic additions and the
\* sampler's atomic swaps with zero no increment is lost or counted twice:
\* as long as count has not wrapped, the values the swaps returned and the
\* current count add up to U times the trips completed
InvC27 ==
    (tl_pc # "idle" /\ ~tl_wrapped) =>
        tl_swapped + tl_count = tl_unroll * tl_trips

\* swaps have taken a non-zero count and the worker has added since
WitC27 ==
    /\ tl_pc = "loop"
    /\ ~tl_wrapped
    /\ tl_swapped > tl_unroll
    /\ tl_count > tl_unroll
    /\ tl_trips = MaxTallyTrips

(***************************************************************************)
(* Properties of the seeding of the random generator.                      *)
(***************************************************************************)
\* C29: on every thread every call of rng_int comes after a call of
\* rng_init on that thread, so the generator is never used unseeded, the
\* draws main makes for the mixer table included
InvC29 ==
    /\ sd_unseeded = {}
    /\ \A t \in DOMAIN sd_pc : sd_calls[t] > 0 => sd_rand_state[t] = "seeded"

(***************************************************************************)
(* Properties of the ping-pong threads.                                    *)
(***************************************************************************)
\* the successful exchanges of thread t so far
ExchangesOf(t) == Cardinality({i \in 1 .. Len(pp_log) : pp_log[i] = t})

\* the successful exchanges alternate, thread 0 first
Alternates ==
    /\ \A i \in 1 .. Len(pp_log) : pp_log[i] = (i - 1) % 2
    /\ ExchangesOf(0) - ExchangesOf(1) \in {0, 1}

\* C30: in the ping-pong tool, for every interleaving of the two threads,
\* the successful exchanges alternate between thread 0 and thread 1 starting
\* with thread 0, in the locked and in the unlocked loop, their numbers
\* never differ by more than one, and neither thread dereferences the
\* shared word before thread 0 has mapped and initialised it
InvC30 ==
    pp_pc # <<>> =>
        /\ Alternates
        /\ \A t \in PingpongThreads :
            /\ pp_pc[t] # "fault"
            /\ pp_pc[t] \in {"loop", "store"} => pp_cache[t] = "mapped"

(***************************************************************************)
(* Specifications.                                                         *)
(***************************************************************************)
InitPerm ==
    PermInit /\ ChaseIdle /\ BarrierIdle /\ CountIdle /\ SamplerIdle /\ BwIdle
    /\ BranchIdle /\ SetupIdle /\ MixersIdle /\ RngIdle /\ IsPermIdle
    /\ LongIdle /\ CritwordIdle /\ CoptIdle /\ LoadIdle /\ TallyIdle
    /\ SeedIdle /\ PingpongIdle
SpecPerm == InitPerm /\ [][PermNext]_vars

InitChase ==
    ChaseInit /\ PermIdle /\ BarrierIdle /\ CountIdle /\ SamplerIdle /\ BwIdle
    /\ BranchIdle /\ SetupIdle /\ MixersIdle /\ RngIdle /\ IsPermIdle
    /\ LongIdle /\ CritwordIdle /\ CoptIdle /\ LoadIdle /\ TallyIdle
    /\ SeedIdle /\ PingpongIdle
SpecChase == InitChase /\ [][ChaseNext]_vars

InitBarrier ==
    BarrierInit /\ PermIdle /\ ChaseIdle /\ CountIdle /\ SamplerIdle /\ BwIdle
    /\ BranchIdle /\ SetupIdle /\ MixersIdle /\ RngIdle /\ IsPermIdle
    /\ LongIdle /\ CritwordIdle /\ CoptIdle /\ LoadIdle /\ TallyIdle
    /\ SeedIdle /\ PingpongIdle
SpecBarrier == InitBarrier /\ [][BarrierNext]_vars

InitCount ==
    CountInit /\ PermIdle /\ ChaseIdle /\ BarrierIdle /\ SamplerIdle /\ BwIdle
    /\ BranchIdle /\ SetupIdle /\ MixersIdle /\ RngIdle /\ IsPermIdle
    /\ LongIdle /\ CritwordIdle /\ CoptIdle /\ LoadIdle /\ TallyIdle
    /\ SeedIdle /\ PingpongIdle
SpecCount == InitCount /\ [][CountNext]_vars

InitSampler ==
    SamplerInit /\ PermIdle /\ ChaseIdle /\ BarrierIdle /\ CountIdle /\ BwIdle
    /\ BranchIdle /\ SetupIdle /\ MixersIdle /\ RngIdle /\ IsPermIdle
    /\ LongIdle /\ CritwordIdle /\ CoptIdle /\ LoadIdle /\ TallyIdle
    /\ SeedIdle /\ PingpongIdle
SpecSampler == InitSampler /\ [][SamplerNext]_vars

InitBw ==
    BwInit /\ PermIdle /\ ChaseIdle /\ BarrierIdle /\ CountIdle /\ SamplerIdle
    /\ BranchIdle /\ SetupIdle /\ MixersIdle /\ RngIdle /\ IsPermIdle
    /\ LongIdle /\ CritwordIdle /\ CoptIdle /\ LoadIdle /\ TallyIdle
    /\ SeedIdle /\ PingpongIdle
SpecBw == InitBw /\ [][BwNext]_vars

InitBranch ==
    BranchInit /\ PermIdle /\ ChaseIdle /\ BarrierIdle /\ CountIdle
    /\ SamplerIdle /\ BwIdle /\ SetupIdle /\ MixersIdle /\ RngIdle
    /\ IsPermIdle /\ LongIdle /\ CritwordIdle /\ CoptIdle /\ LoadIdle
    /\ TallyIdle /\ SeedIdle /\ PingpongIdle
SpecBranch == InitBranch /\ [][BranchNext]_vars

InitSetup ==
    SetupInit /\ PermIdle /\ ChaseIdle /\ BarrierIdle /\ CountIdle
    /\ SamplerIdle /\ BwIdle /\ BranchIdle /\ MixersIdle /\ RngIdle
    /\ IsPermIdle /\ LongIdle /\ CritwordIdle /\ CoptIdle /\ LoadIdle
    /\ TallyIdle /\ SeedIdle /\ PingpongIdle
SpecSetup == InitSetup /\ [][SetupNext]_vars

InitMixers ==
    MixersInit /\ PermIdle /\ ChaseIdle /\ BarrierIdle /\ CountIdle
    /\ SamplerIdle /\ BwIdle /\ BranchIdle /\ SetupIdle /\ RngIdle
    /\ IsPermIdle /\ LongIdle /\ CritwordIdle /\ CoptIdle /\ LoadIdle
    /\ TallyIdle /\ SeedIdle /\ PingpongIdle
SpecMixers == InitMixers /\ [][MixersNext]_vars

InitRng ==
    RngInit /\ PermIdle /\ ChaseIdle /\ BarrierIdle /\ CountIdle
    /\ SamplerIdle /\ BwIdle /\ BranchIdle /\ SetupIdle /\ MixersIdle
    /\ IsPermIdle /\ LongIdle /\ CritwordIdle /\ CoptIdle /\ LoadIdle
    /\ TallyIdle /\ SeedIdle /\ PingpongIdle
SpecRng == InitRng /\ [][RngNext]_vars

InitIsPerm ==
    IsPermInit /\ PermIdle /\ ChaseIdle /\ BarrierIdle /\ CountIdle
    /\ SamplerIdle /\ BwIdle /\ BranchIdle /\ SetupIdle /\ MixersIdle
    /\ RngIdle /\ LongIdle /\ CritwordIdle /\ CoptIdle /\ LoadIdle
    /\ TallyIdle /\ SeedIdle /\ PingpongIdle
SpecIsPerm == InitIsPerm /\ [][IsPermNext]_vars

InitLong ==
    LongInit /\ PermIdle /\ ChaseIdle /\ BarrierIdle /\ CountIdle
    /\ SamplerIdle /\ BwIdle /\ BranchIdle /\ SetupIdle /\ MixersIdle
    /\ RngIdle /\ IsPermIdle /\ CritwordIdle /\ CoptIdle /\ LoadIdle
    /\ TallyIdle /\ SeedIdle /\ PingpongIdle
SpecLong == InitLong /\ [][LongNext]_vars

InitCritword ==
    CritwordInit /\ PermIdle /\ ChaseIdle /\ BarrierIdle /\ CountIdle
    /\ SamplerIdle /\ BwIdle /\ BranchIdle /\ SetupIdle /\ MixersIdle
    /\ RngIdle /\ IsPermIdle /\ LongIdle /\ CoptIdle /\ LoadIdle /\ TallyIdle
    /\ SeedIdle /\ PingpongIdle
SpecCritword == InitCritword /\ [][CritwordNext]_vars

InitCopt ==
    CoptInit /\ PermIdle /\ ChaseIdle /\ BarrierIdle /\ CountIdle
    /\ SamplerIdle /\ BwIdle /\ BranchIdle /\ SetupIdle /\ MixersIdle
    /\ RngIdle /\ IsPermIdle /\ LongIdle /\ CritwordIdle /\ LoadIdle
    /\ TallyIdle /\ SeedIdle /\ PingpongIdle
SpecCopt == InitCopt /\ [][CoptNext]_vars

InitLoad ==
    LoadInit /\ PermIdle /\ ChaseIdle /\ BarrierIdle /\ CountIdle
    /\ SamplerIdle /\ BwIdle /\ BranchIdle /\ SetupIdle /\ MixersIdle
    /\ RngIdle /\ IsPermIdle /\ LongIdle /\ CritwordIdle /\ CoptIdle
    /\ TallyIdle /\ SeedIdle /\ PingpongIdle
SpecLoad == InitLoad /\ [][LoadNext]_vars

InitTally ==
    TallyInit /\ PermIdle /\ ChaseIdle /\ BarrierIdle /\ CountIdle
    /\ SamplerIdle /\ BwIdle /\ BranchIdle /\ SetupIdle /\ MixersIdle
    /\ RngIdle /\ IsPermIdle /\ LongIdle /\ CritwordIdle /\ CoptIdle
    /\ LoadIdle /\ SeedIdle /\ PingpongIdle
SpecTally == InitTally /\ [][TallyNext]_vars

InitSeed ==
    SeedInit /\ PermIdle /\ ChaseIdle /\ BarrierIdle /\ CountIdle
    /\ SamplerIdle /\ BwIdle /\ BranchIdle /\ SetupIdle /\ MixersIdle
    /\ RngIdle /\ IsPermIdle /\ LongIdle /\ CritwordIdle /\ CoptIdle
    /\ LoadIdle /\ TallyIdle /\ PingpongIdle
SpecSeed == InitSeed /\ [][SeedNext]_vars

InitPingpong ==
    PingpongInit /\ PermIdle /\ ChaseIdle /\ BarrierIdle /\ CountIdle
    /\ SamplerIdle /\ BwIdle /\ BranchIdle /\ SetupIdle /\ MixersIdle
    /\ RngIdle /\ IsPermIdle /\ LongIdle /\ CritwordIdle /\ CoptIdle
    /\ LoadIdle /\ TallyIdle /\ SeedIdle
SpecPingpong == InitPingpong /\ [][PingpongNext]_vars

\* the sampling loop with main and the workers scheduled fairly
LiveSampler == SpecSampler /\ WF_vars(SamplerNext)


\* the start barrier with main and every worker scheduled fairly; a wakeup
\* without a broadcast may happen but is never owed
LiveBarrier ==
    /\ SpecBarrier
    /\ WF_vars(MainCreate) /\ WF_vars(MainLock) /\ WF_vars(MainCheck)
    /\ WF_vars(MainReacquire) /\ WF_vars(MainUnlock)
    /\ \A t \in 0 .. MaxThreads - 1 :
        /\ WF_vars(t \in Workers /\ ThreadBuild(t))
        /\ WF_vars(t \in Workers /\ ThreadLock(t))
        /\ WF_vars(t \in Workers /\ ThreadArrive(t))
        /\ WF_vars(t \in Workers /\ ThreadReacquire(t))
        /\ WF_vars(t \in Workers /\ ThreadUnlock(t))
====
